---------------------------- MODULE Spec2Model ----------------------------
(***************************************************************************)
(* Verification model of the local-event-gateway background worker         *)
(* (src/background.js): the reverse-sync queue, the ack reconciler, the    *)
(* inbound WebSocket action path with its dedupe ledger, the echo          *)
(* suppression engine and the bookmark capture handlers.                   *)
(*                                                                         *)
(* Conventions.                                                            *)
(*  - A JavaScript value that is absent (undefined) is the marker          *)
(*    UNDEFINED; the empty string is "".                                   *)
(*  - An async function is a sequence of atomic segments separated by its  *)
(*    awaits.  chrome.storage.local serves requests in issue order, so a   *)
(*    get reads the record when it is issued (the end of the segment that  *)
(*    calls it) and a set writes the record when it is issued.             *)
(*  - Date.now() is the variable now (milliseconds).                       *)
(***************************************************************************)
EXTENDS Integers, Sequences, FiniteSets, TLC

UNDEFINED == "<undefined>"

\* typeof v === "string" && v.length > 0
IsNonEmptyString(v) == v # UNDEFINED /\ v # ""

(***************************************************************************)
(* Bounds of the model.                                                    *)
(***************************************************************************)
\* longest reverse queue drawn for the coalesce check
MaxCoalesceQueue == 3
\* longest reverse queue drawn for the ack reconciler check
MaxAckQueue == 2
\* most results in one BatchAckResponse
MaxAckResults == 2
\* longest reverse queue drawn for the HTTP flush check
MaxFlushQueue == 2
\* longest reverse queue drawn for the markFlushFailures check
MaxFailQueue == 3
\* longest reverse queue drawn for the WebSocket flush check
MaxWsQueue == 3
\* most handler invocations in progress at once
MaxTasks == 2
\* most clock advances in a run
MaxTicks == 2
\* most user edits of the bookmark store in a run
MaxEdits == 2
\* most socket messages delivered in a run
MaxDeliveries == 3
\* most action envelopes put on the socket before the alarm stops firing
MaxSends == 4
\* most session-manager invocations in progress at once
MaxCallers == 3
\* most ensureWebSocketConnection calls in a run
MaxConnects == 2

(***************************************************************************)
(* Program constants.                                                      *)
(***************************************************************************)
\* markFlushFailures: nextRetryCount >= 3 quarantines
QuarantineAt == 3
\* syncFromPayload: setCooldown(resetState, 3000)
CooldownMs == 3000
\* recordAndCheckDedupe: ttlMs = 5 * 60 * 1000
TtlMs == 300000

(***************************************************************************)
(* Value universes.                                                        *)
(***************************************************************************)
\* event ids in enqueue order (crypto.randomUUID() values, opaque)
EventIdSeq == <<"e1", "e2", "e3", "e4", "e5">>
EventIds == {EventIdSeq[i] : i \in 1..Len(EventIdSeq)}
BookmarkIds == {"b1", "b2"}
ManagedKeys == {"note:A", "note:B"}

LegacyTerminalStatuses ==
  {"applied", "duplicate", "skipped_ambiguous", "skipped_unmanaged", "rejected_invalid"}

Max(a, b) == IF a >= b THEN a ELSE b

\* new Date(t).toISOString(): the instant t, in milliseconds since the start
\* of the run, as a string
toISOString(t) == "T+" \o ToString(t) \o "ms"

Indices(s) == [i \in 1..Len(s) |-> i]

\* the subsequence of s at the (increasing) indices keep
Pick(s, keep) == [k \in 1..Len(keep) |-> s[keep[k]]]

(***************************************************************************)
(* Reverse queue items.                                                    *)
(***************************************************************************)
QueueItem(eventId, bookmarkId, retryCount) ==
  [event |-> [eventId |-> eventId, bookmarkId |-> bookmarkId,
              batchId |-> "batch-1", type |-> "bookmark_updated",
              managedKey |-> ""],
   retryCount |-> retryCount,
   enqueuedAt |-> toISOString(0)]

\* rsLog(event, data): the record handed to the console and the debug timeline
LogRecord(event, eventId, bookmarkId, retryCount, status, reason) ==
  [event |-> event, eventId |-> eventId, bookmarkId |-> bookmarkId,
   retryCount |-> retryCount, status |-> status, reason |-> reason]

\* rsLog('flush', { batchId, count }) and rsLog('error', { batchId, reason })
FlushLog(count) ==
  [LogRecord("flush", UNDEFINED, UNDEFINED, UNDEFINED, UNDEFINED, UNDEFINED)
     EXCEPT !.retryCount = count]

ErrorLog(reason) ==
  LogRecord("error", UNDEFINED, UNDEFINED, UNDEFINED, UNDEFINED, reason)

(***************************************************************************)
(* dequeueAckedEvents(state, ackedEventIds)                                *)
(***************************************************************************)
dequeueAckedEvents_KeepsAll(queue, ackedEventIds) == queue

dequeueAckedEvents(queue, ackedEventIds) ==
  SelectSeq(queue, LAMBDA item : item.event.eventId \notin ackedEventIds)

(***************************************************************************)
(* coalesceQueue(queue)                                                    *)
(***************************************************************************)
\* lastIndexByBookmarkId[bookmarkId] after the first loop (0: no entry)
lastIndexByBookmarkId(queue, bookmarkId) ==
  LET at == {i \in 1..Len(queue) : queue[i].event.bookmarkId = bookmarkId}
  IN IF at = {} THEN 0 ELSE CHOOSE i \in at : \A j \in at : j <= i

coalesceQueue_KeepsFirst(queue) ==
  LET firstIndex(b) == CHOOSE i \in 1..Len(queue) :
                         /\ queue[i].event.bookmarkId = b
                         /\ \A j \in 1..(i - 1) : queue[j].event.bookmarkId # b
      keep == SelectSeq(Indices(queue), LAMBDA i :
                \/ ~IsNonEmptyString(queue[i].event.bookmarkId)
                \/ firstIndex(queue[i].event.bookmarkId) = i)
  IN Pick(queue, keep)

coalesceQueue(queue) ==
  LET keep == SelectSeq(Indices(queue), LAMBDA i :
                \/ ~IsNonEmptyString(queue[i].event.bookmarkId)
                \/ lastIndexByBookmarkId(queue, queue[i].event.bookmarkId) = i)
  IN Pick(queue, keep)


(***************************************************************************)
(* removeSupersededCoalescedEvents(state, coalescedItems)                  *)
(***************************************************************************)
removeSupersededCoalescedEvents(queue, coalescedItems) ==
  LET coalescedEventIds ==
        {coalescedItems[i].event.eventId : i \in 1..Len(coalescedItems)}
      coalescedBookmarkIds ==
        {coalescedItems[i].event.bookmarkId : i \in
           {j \in 1..Len(coalescedItems) :
              IsNonEmptyString(coalescedItems[j].event.bookmarkId)}}
  IN SelectSeq(queue, LAMBDA item :
       \/ ~IsNonEmptyString(item.event.bookmarkId)
       \/ item.event.bookmarkId \notin coalescedBookmarkIds
       \/ item.event.eventId \in coalescedEventIds)

(***************************************************************************)
(* markFlushFailures(state, failedItems, reason): the queue it leaves and  *)
(* the quarantine records it logs, in queue order.                         *)
(***************************************************************************)
failedIds(failedItems) ==
  {failedItems[i].event.eventId : i \in 1..Len(failedItems)}

nextRetryCount_Unchanged(item) == item.retryCount

\* Number(item.retryCount || 0) + 1
nextRetryCount(item) == item.retryCount + 1

markFlushFailures_NoQuarantine(queue, failedItems) ==
  [i \in 1..Len(queue) |->
     IF queue[i].event.eventId \in failedIds(failedItems)
     THEN [queue[i] EXCEPT !.retryCount = nextRetryCount(queue[i])]
     ELSE queue[i]]

markFlushFailures(queue, failedItems) ==
  LET failed(i) == queue[i].event.eventId \in failedIds(failedItems)
      keep == SelectSeq(Indices(queue), LAMBDA i :
                ~failed(i) \/ nextRetryCount(queue[i]) < QuarantineAt)
  IN [k \in 1..Len(keep) |->
        IF failed(keep[k])
        THEN [queue[keep[k]] EXCEPT !.retryCount = nextRetryCount(queue[keep[k]])]
        ELSE queue[keep[k]]]

markFlushFailuresLogs(queue, failedItems, reason) ==
  LET quarantined == SelectSeq(Indices(queue), LAMBDA i :
                       /\ queue[i].event.eventId \in failedIds(failedItems)
                       /\ nextRetryCount(queue[i]) >= QuarantineAt)
  IN [k \in 1..Len(quarantined) |->
        LogRecord("quarantine", queue[quarantined[k]].event.eventId,
                  queue[quarantined[k]].event.bookmarkId,
                  nextRetryCount(queue[quarantined[k]]), UNDEFINED, reason)]

(***************************************************************************)
(* updateBookmarkKeyMapping(state, bookmarkId, managedKey)                 *)
(***************************************************************************)
updateBookmarkKeyMapping(keyMap, bookmarkId, managedKey) ==
  (bookmarkId :> managedKey) @@ keyMap

(***************************************************************************)
(* processReverseAckResponse(state, ackResponse)                           *)
(*                                                                         *)
(* st is [reverseQueue, bookmarkIdToManagedKey]; snapshot is the queue as  *)
(* it was when the call started (queueItemByEventId is built from it).     *)
(***************************************************************************)
AckResult(eventId, status, resolvedKey) ==
  [eventId |-> eventId, status |-> status, resolvedKey |-> resolvedKey]

\* queueItemByEventId[eventId]: the last queue item with that eventId
hasQueueItemByEventId(snapshot, eventId) ==
  \E i \in 1..Len(snapshot) : snapshot[i].event.eventId = eventId

queueItemByEventId(snapshot, eventId) ==
  snapshot[CHOOSE i \in 1..Len(snapshot) :
             /\ snapshot[i].event.eventId = eventId
             /\ \A j \in 1..Len(snapshot) :
                  snapshot[j].event.eventId = eventId => j <= i]

\* the live queue instead of the snapshot taken before the loop
ackSnapshot_Live(queue0, queueNow) == queueNow

ackSnapshot(queue0, queueNow) == queue0

\* the statuses whose branch dequeues the event
ackDequeues_NotRejected(status) ==
  status \in {"applied", "duplicate", "skipped_ambiguous", "skipped_unmanaged"}

ackDequeues_AlsoUnknown(status) == TRUE

ackDequeues(status) ==
  status \in {"applied", "duplicate", "skipped_ambiguous", "skipped_unmanaged",
              "rejected_invalid"}

\* the statuses whose branch may record resolvedKey
ackRecordsKey_AlsoDuplicate(status) == status \in {"applied", "duplicate"}

ackRecordsKey(status) == status = "applied"

\* one iteration of the loop over ackResponse.results
processAckResult(st, queue0, result) ==
  LET snapshot == ackSnapshot(queue0, st.reverseQueue)
      mapped ==
        IF /\ ackRecordsKey(result.status)
           /\ IsNonEmptyString(result.resolvedKey)
           /\ hasQueueItemByEventId(snapshot, result.eventId)
           /\ IsNonEmptyString(queueItemByEventId(snapshot, result.eventId).event.bookmarkId)
        THEN updateBookmarkKeyMapping(st.bookmarkIdToManagedKey,
               queueItemByEventId(snapshot, result.eventId).event.bookmarkId,
               result.resolvedKey)
        ELSE st.bookmarkIdToManagedKey
  IN IF ackDequeues(result.status)
     THEN [reverseQueue |-> dequeueAckedEvents(st.reverseQueue, {result.eventId}),
           bookmarkIdToManagedKey |-> mapped]
     ELSE st

RECURSIVE processAckResultsFrom(_, _, _, _)
processAckResultsFrom(st, queue0, results, i) ==
  IF i > Len(results) THEN st
  ELSE processAckResultsFrom(processAckResult(st, queue0, results[i]),
                             queue0, results, i + 1)

processReverseAckResponse(st, results) ==
  processAckResultsFrom(st, st.reverseQueue, results, 1)

\* the record each result logs: ack, skip, error or warn
processReverseAckResponseLogs(results) ==
  [i \in 1..Len(results) |->
     LET r == results[i]
     IN CASE r.status \in {"applied", "duplicate"} ->
               LogRecord("ack", r.eventId, UNDEFINED, UNDEFINED, r.status, UNDEFINED)
          [] r.status \in {"skipped_ambiguous", "skipped_unmanaged"} ->
               LogRecord("skip", r.eventId, UNDEFINED, UNDEFINED, r.status, UNDEFINED)
          [] r.status = "rejected_invalid" ->
               LogRecord("error", r.eventId, UNDEFINED, UNDEFINED, r.status, UNDEFINED)
          [] OTHER ->
               LogRecord("warn", r.eventId, UNDEFINED, UNDEFINED, r.status, "unknown_status")]

(***************************************************************************)
(* State.                                                                  *)
(***************************************************************************)
\* A direct call of one reverse-queue function on an in-memory state
\* object, as the unit tests make it (loadBackground(); bg.fn(state, ...)).
VARIABLES
  state,           \* the state object handed to the function
  state0,          \* the state object as it was when the call started
  fn,              \* the function called ("none" before the call)
  unitPc,          \* where the call stands: ready, fetch, json, returned
  coalescedItems,  \* coalesceQueue's result / flushReverseQueue's batch
  ackResponse,     \* the results of the BatchAckResponse processed
  ackTrace,        \* the state object after each result of ackResponse
  fetchOutcome,    \* how the POST of flushReverseQueue settled
  console,         \* the records the call handed to rsLog, in order
  storageWrites    \* the records the call handed to chrome.storage.local.set

\* The running service worker.
VARIABLES
  storage,               \* chrome.storage.local[STORAGE_KEY], the raw record
  now,                   \* Date.now()
  bookmarks,             \* the browser's bookmark store: children, title
  pendingEvents,         \* chrome.bookmarks events fired, not yet dispatched
  tasks,                 \* the handler invocations in progress
  uuids,                 \* crypto.randomUUID() pairs drawn by capture handlers
  nodeCount,             \* node ids the bookmark store has handed out
  syslog,                \* the records the handlers handed to rsLog
  reverseFlushTimer,     \* reverseFlushTimer !== null
  reverseFlushInFlight,  \* let reverseFlushInFlight
  wsReady,               \* wsClient: NONE (null), CONNECTING, OPEN
  wsInboundQueue,        \* let wsInboundQueue
  wsOutboundQueue,       \* let wsOutboundQueue
  wire,                  \* the envelopes wsClient.send() put on the socket
  applied,               \* the inbound envelopes applied to the store
  echoed,                \* ids of queued events captured from an inbound apply
  ticks,                 \* clock advances so far
  edits,                 \* user edits of the bookmark store so far
  delivered              \* the socket messages delivered so far, with the time

\* The WebSocket session manager.
VARIABLES
  wsSession,         \* chrome.storage.local[WS_SESSION_KEY]
  bridgeConfig,      \* chrome.storage.local[BRIDGE_CONFIG_KEY]
  sockets,           \* every socket new WebSocket() returned: readyState, profile
  wsClient,          \* let wsClient: 0 (null) or an index of sockets
  wsReconnectTimer,  \* wsReconnectTimer !== null
  storageQueue,      \* the slots of tasks awaiting chrome.storage.local, in call order
  connects,          \* ensureWebSocketConnection calls so far
  wsHeartbeatTimer,  \* wsHeartbeatTimer !== null
  handed,            \* outbound queue model: what handlers handed to sendWsEnvelope
  armed              \* back-off model: the timers armed, attempt written and delay

unitVars ==
  <<state, state0, fn, unitPc, coalescedItems, ackResponse, ackTrace, fetchOutcome,
    console, storageWrites>>

workerVars ==
  <<storage, now, bookmarks, pendingEvents, tasks, uuids, nodeCount, syslog,
    reverseFlushTimer, reverseFlushInFlight, wsReady, wsInboundQueue,
    wsOutboundQueue, wire, applied, echoed, ticks, edits, delivered>>

sessionVars ==
  <<wsSession, bridgeConfig, sockets, wsClient, wsReconnectTimer, storageQueue,
    connects, wsHeartbeatTimer, handed, armed>>

vars == <<unitVars, workerVars, sessionVars>>

\* what a step of a direct call leaves alone
UnitFrame == UNCHANGED <<workerVars, sessionVars>>

\* what a step of the worker leaves alone
WorkerFrame == UNCHANGED <<unitVars, sessionVars>>

\* a slot of tasks with no invocation in it
Idle == [kind |-> "idle"]

\* the worker with the persisted record drawn from records, the bookmark
\* store store and the socket in readyState socket
\* the session manager before ensureWebSocketSession has stored anything
SessionIdle ==
  /\ wsSession = <<>>
  /\ bridgeConfig = <<>>
  /\ sockets = <<>>
  /\ wsClient = 0
  /\ wsReconnectTimer = FALSE
  /\ storageQueue = <<>>
  /\ connects = 0
  /\ wsHeartbeatTimer = FALSE
  /\ handed = <<>>
  /\ armed = {}

WorkerStart(records, store, socket) ==
  /\ SessionIdle
  /\ storage \in records
  /\ now = 0
  /\ bookmarks = store
  /\ pendingEvents = <<>>
  /\ tasks = [i \in 1..MaxTasks |-> Idle]
  /\ uuids = 0
  /\ nodeCount = 0
  /\ syslog = {}
  /\ reverseFlushTimer = FALSE
  /\ reverseFlushInFlight = FALSE
  /\ wsReady = socket
  /\ wsInboundQueue = <<>>
  /\ wsOutboundQueue = <<>>
  /\ wire = <<>>
  /\ applied = <<>>
  /\ echoed = {}
  /\ ticks = 0
  /\ edits = 0
  /\ delivered = <<>>

\* the worker before anything is installed or connected
WorkerIdle == WorkerStart({<<>>}, [children |-> <<>>, title |-> <<>>], "NONE")

NoKeys == [b \in BookmarkIds |-> UNDEFINED]

\* the queues of at most maxLen items, event ids in enqueue order
DrawnQueues(maxLen, bookmarkIds, retryCounts) ==
  UNION {{[i \in 1..n |-> QueueItem(EventIdSeq[i], b[i], r[i])] :
            b \in [1..n -> bookmarkIds], r \in [1..n -> retryCounts]} :
         n \in 0..maxLen}

UnitStart(queues, keyMaps) ==
  /\ state \in [reverseQueue : queues, bookmarkIdToManagedKey : keyMaps]
  /\ state0 = state
  /\ fn = "none"
  /\ unitPc = "ready"
  /\ coalescedItems = <<>>
  /\ ackResponse = <<>>
  /\ ackTrace = <<>>
  /\ fetchOutcome = "none"
  /\ console = <<>>
  /\ storageWrites = <<>>

\* no direct call is made
UnitIdle == UnitStart({<<>>}, {NoKeys})

UnitInit(queues, keyMaps) == UnitStart(queues, keyMaps) /\ WorkerIdle

(***************************************************************************)
(* coalesceQueue called on a queue.                                        *)
(***************************************************************************)
InitCoalesce ==
  UnitInit(DrawnQueues(MaxCoalesceQueue, BookmarkIds \cup {"", UNDEFINED}, {0}),
           {NoKeys})

CallCoalesceQueue ==
  /\ fn = "none"
  /\ fn' = "coalesceQueue"
  /\ unitPc' = "returned"
  /\ coalescedItems' = coalesceQueue(state.reverseQueue)
  /\ UNCHANGED <<state, state0, ackResponse, ackTrace, fetchOutcome, console,
                 storageWrites>>
  /\ UnitFrame

NextCoalesce == CallCoalesceQueue

SpecCoalesce == InitCoalesce /\ [][NextCoalesce]_vars

ItemsOf(s) == {s[i] : i \in 1..Len(s)}

\* C7: coalesceQueue(q) holds at most one item per non-empty bookmarkId and
\* that item is the last item of q with that bookmarkId; every item whose
\* bookmarkId is empty or missing is kept; the kept items are in their
\* original relative order; coalescing the result again changes nothing.
C7_CoalesceLastWins ==
  fn = "coalesceQueue" =>
    LET q == state.reverseQueue
        c == coalescedItems
    IN /\ \A b \in BookmarkIds :
            LET inC == {i \in 1..Len(c) : c[i].event.bookmarkId = b}
                inQ == {i \in 1..Len(q) : q[i].event.bookmarkId = b}
            IN /\ Cardinality(inC) <= 1
               /\ \A i \in inC : /\ inQ # {}
                                 /\ c[i] = q[CHOOSE k \in inQ : \A j \in inQ : j <= k]
       /\ SelectSeq(c, LAMBDA item : ~IsNonEmptyString(item.event.bookmarkId))
            = SelectSeq(q, LAMBDA item : ~IsNonEmptyString(item.event.bookmarkId))
       /\ c = SelectSeq(q, LAMBDA item : item \in ItemsOf(c))
       /\ coalesceQueue(c) = c

C7_Witness ==
  /\ fn = "coalesceQueue"
  /\ Len(state.reverseQueue) = 3
  /\ Len(coalescedItems) = 2
  /\ state.reverseQueue[1].event.bookmarkId = "b1"
  /\ state.reverseQueue[2].event.bookmarkId = ""
  /\ state.reverseQueue[3].event.bookmarkId = "b1"
  /\ coalescedItems[2].event.eventId = "e3"

(***************************************************************************)
(* processReverseAckResponse called on a state and a BatchAckResponse.     *)
(***************************************************************************)
\* the event ids a bridge response may name
AckEventIds == {"e1", "e2"}

\* the results a bridge may send for one event: every legacy status, a
\* status the reconciler does not know, with and without resolvedKey
AckResults ==
  {AckResult(e, "applied", k) : e \in AckEventIds, k \in {UNDEFINED, "", "note:B"}}
  \cup {AckResult(e, "duplicate", "note:B") : e \in AckEventIds}
  \cup {AckResult(e, st, UNDEFINED) : e \in AckEventIds,
          st \in {"skipped_ambiguous", "skipped_unmanaged", "rejected_invalid"}}
  \cup {AckResult(e, "some_future_status", "note:B") : e \in AckEventIds}

DrawnAckResponses(maxLen) ==
  UNION {[1..n -> AckResults] : n \in 0..maxLen}

InitAck ==
  UnitInit(DrawnQueues(MaxAckQueue, BookmarkIds \cup {""}, {0}),
           {NoKeys, [NoKeys EXCEPT !["b1"] = "note:A"]})

CallProcessReverseAckResponse ==
  /\ fn = "none"
  /\ \E results \in DrawnAckResponses(MaxAckResults) :
       /\ ackResponse' = results
       /\ ackTrace' = [i \in 1..Len(results) |->
                         processReverseAckResponse(state, SubSeq(results, 1, i))]
       /\ state' = processReverseAckResponse(state, results)
       /\ console' = processReverseAckResponseLogs(results)
  /\ fn' = "processReverseAckResponse"
  /\ unitPc' = "returned"
  /\ UNCHANGED <<state0, coalescedItems, fetchOutcome, storageWrites>>
  /\ UnitFrame

NextAck == CallProcessReverseAckResponse

SpecAck == InitAck /\ [][NextAck]_vars

\* the state object before the i-th result is processed
AckBefore(i) == IF i = 1 THEN state0 ELSE ackTrace[i - 1]

TerminalResultIds ==
  {ackResponse[i].eventId :
     i \in {j \in 1..Len(ackResponse) : ackResponse[j].status \in LegacyTerminalStatuses}}

C5_UnknownStatusKeeps ==
  fn = "processReverseAckResponse" =>
    \A i \in 1..Len(ackResponse) :
      ackResponse[i].status \notin LegacyTerminalStatuses =>
        /\ ackTrace[i] = AckBefore(i)
        /\ ackResponse[i].eventId \notin TerminalResultIds =>
             \A k \in 1..Len(state0.reverseQueue) :
               state0.reverseQueue[k].event.eventId = ackResponse[i].eventId =>
                 state0.reverseQueue[k] \in ItemsOf(state.reverseQueue)

C5_Witness ==
  /\ fn = "processReverseAckResponse"
  /\ Len(ackResponse) = 1
  /\ ackResponse[1] = AckResult("e1", "some_future_status", "note:B")
  /\ Len(state0.reverseQueue) = 2
  /\ state0.reverseQueue[1].event.bookmarkId = "b1"
  /\ state0.bookmarkIdToManagedKey["b1"] = "note:A"
  /\ state = state0

\* C6: an applied result with a non-empty resolvedKey sets
\* bookmarkIdToManagedKey[b] to it, b being the (non-empty) bookmarkId of
\* the item that had the result's eventId when the call started, and
\* changes no other entry; an applied result without resolvedKey and a
\* duplicate result change no entry.
C6_ResolvedKeyMapping ==
  fn = "processReverseAckResponse" =>
    \A i \in 1..Len(ackResponse) :
      LET r == ackResponse[i]
          before == AckBefore(i).bookmarkIdToManagedKey
          after == ackTrace[i].bookmarkIdToManagedKey
          at == {k \in 1..Len(state0.reverseQueue) :
                   state0.reverseQueue[k].event.eventId = r.eventId}
      IN /\ (r.status = "applied" /\ IsNonEmptyString(r.resolvedKey)) =>
              \A k \in at :
                LET b == state0.reverseQueue[k].event.bookmarkId
                IN IF IsNonEmptyString(b)
                   THEN /\ after[b] = r.resolvedKey
                        /\ \A other \in BookmarkIds \ {b} : after[other] = before[other]
                   ELSE after = before
         /\ (r.status = "applied" /\ ~IsNonEmptyString(r.resolvedKey)) => after = before
         /\ r.status = "duplicate" => after = before

C6_Witness ==
  /\ fn = "processReverseAckResponse"
  /\ Len(ackResponse) = 2
  /\ ackResponse[1] = AckResult("e1", "duplicate", "note:B")
  /\ ackResponse[2] = AckResult("e1", "applied", "note:B")
  /\ Len(state0.reverseQueue) = 2
  /\ state0.reverseQueue[1].event.bookmarkId = "b1"
  /\ state0.bookmarkIdToManagedKey["b1"] = "note:A"
  /\ ackTrace[1].bookmarkIdToManagedKey["b1"] = "note:A"
  /\ state.bookmarkIdToManagedKey["b1"] = "note:B"
  /\ state.bookmarkIdToManagedKey["b2"] = UNDEFINED

(***************************************************************************)
(* flushReverseQueue(state, bridgeUrl, bridgeToken): the HTTP flush.       *)
(***************************************************************************)
\* how the POST settles: a non-OK status, a rejected fetch, or 200
FetchOutcomes == {"http_503", "network_error", "ok"}

\* the statuses a bridge reports per event of the batch
HttpAckStatuses == LegacyTerminalStatuses \cup {"some_future_status"}

\* a BatchAckResponse with one result per event of the batch, in order
HttpAckResponses(batch) ==
  {[i \in 1..Len(batch) |-> AckResult(batch[i].event.eventId, st[i], UNDEFINED)] :
     st \in [1..Len(batch) -> HttpAckStatuses]}

InitFlushHttp ==
  UnitInit(DrawnQueues(MaxFlushQueue, BookmarkIds \cup {""}, 0..(QuarantineAt - 1)),
           {NoKeys})

\* const coalescedItems = coalesceQueue(state.reverseQueue);
\* if (count === 0) return;  rsLog('flush');  await fetch(...)
FlushBegin ==
  /\ fn = "none"
  /\ fn' = "flushReverseQueue"
  /\ coalescedItems' = coalesceQueue(state.reverseQueue)
  /\ IF Len(coalescedItems') = 0
     THEN /\ unitPc' = "returned"
          /\ console' = console
     ELSE /\ unitPc' = "fetch"
          /\ console' = Append(console, FlushLog(Len(coalescedItems')))
  /\ UNCHANGED <<state, state0, ackResponse, ackTrace, fetchOutcome, storageWrites>>
  /\ UnitFrame

\* the failure branches and the finally block that persists the state
FlushFailed(reason) ==
  /\ state' = [state EXCEPT
       !.reverseQueue = markFlushFailures(state.reverseQueue, coalescedItems)]
  /\ console' = console
                  \o markFlushFailuresLogs(state.reverseQueue, coalescedItems, reason)
                  \o <<ErrorLog(reason)>>
  /\ storageWrites' = Append(storageWrites, state')
  /\ unitPc' = "returned"

\* the fetch settles: !response.ok, a rejection, or a response to read
FlushFetchSettles ==
  /\ fn = "flushReverseQueue"
  /\ unitPc = "fetch"
  /\ \E outcome \in FetchOutcomes :
       /\ fetchOutcome' = outcome
       /\ IF outcome = "ok"
          THEN /\ unitPc' = "json"
               /\ UNCHANGED <<state, console, storageWrites>>
          ELSE FlushFailed(outcome)
  /\ UNCHANGED <<state0, fn, coalescedItems, ackResponse, ackTrace>>
  /\ UnitFrame

\* response.json() resolves: reconcile, sweep, persist
FlushJsonResolves ==
  /\ fn = "flushReverseQueue"
  /\ unitPc = "json"
  /\ \E results \in HttpAckResponses(coalescedItems) :
       LET acked == processReverseAckResponse(state, results)
       IN /\ ackResponse' = results
          /\ state' = [acked EXCEPT !.reverseQueue =
               removeSupersededCoalescedEvents(acked.reverseQueue, coalescedItems)]
          /\ console' = console \o processReverseAckResponseLogs(results)
  /\ storageWrites' = Append(storageWrites, state')
  /\ unitPc' = "returned"
  /\ UNCHANGED <<state0, fn, coalescedItems, ackTrace, fetchOutcome>>
  /\ UnitFrame

\* response.json() rejects: the catch block treats it as a network error
FlushJsonRejects ==
  /\ fn = "flushReverseQueue"
  /\ unitPc = "json"
  /\ FlushFailed("network_error")
  /\ fetchOutcome' = "json_rejected"
  /\ UNCHANGED <<state0, fn, coalescedItems, ackResponse, ackTrace>>
  /\ UnitFrame

NextFlushHttp ==
  \/ FlushBegin
  \/ FlushFetchSettles
  \/ FlushJsonResolves
  \/ FlushJsonRejects

SpecFlushHttp == InitFlushHttp /\ [][NextFlushHttp]_vars

EventIdsOf(s) == [i \in 1..Len(s) |-> s[i].event.eventId]

\* C10: when the POST of flushReverseQueue returns a non-OK status or
\* throws, each queue item whose eventId is in the coalesced batch has its
\* retryCount raised by one, leaves the queue with a quarantine record
\* (eventId, bookmarkId, retryCount, reason) when the new count reaches 3
\* and stays otherwise; the other items are unchanged; the order is kept;
\* the state is persisted exactly once before the flush returns.
C10_HttpFailureRetries ==
  (fn = "flushReverseQueue" /\ unitPc = "returned"
     /\ fetchOutcome \in {"http_503", "network_error"}) =>
    LET q0 == state0.reverseQueue
        q == state.reverseQueue
        batch == failedIds(coalescedItems)
        quarantine(item) ==
          LogRecord("quarantine", item.event.eventId, item.event.bookmarkId,
                    item.retryCount + 1, UNDEFINED, fetchOutcome)
    IN /\ \A i \in 1..Len(q0) :
            IF q0[i].event.eventId \notin batch
            THEN q0[i] \in ItemsOf(q)
            ELSE IF q0[i].retryCount + 1 >= 3
            THEN /\ \A k \in 1..Len(q) : q[k].event.eventId # q0[i].event.eventId
                 /\ quarantine(q0[i]) \in ItemsOf(console)
            ELSE /\ [q0[i] EXCEPT !.retryCount = q0[i].retryCount + 1] \in ItemsOf(q)
                 /\ quarantine(q0[i]) \notin ItemsOf(console)
       /\ EventIdsOf(q) =
            SelectSeq(EventIdsOf(q0), LAMBDA e : e \in ItemsOf(EventIdsOf(q)))
       /\ Len(storageWrites) = 1
       /\ storageWrites[1] = state

C10_Witness ==
  /\ fn = "flushReverseQueue"
  /\ unitPc = "returned"
  /\ fetchOutcome = "http_503"
  /\ Len(state0.reverseQueue) = 2
  /\ state0.reverseQueue[1].event.bookmarkId = "b1"
  /\ state0.reverseQueue[1].retryCount = 2
  /\ state0.reverseQueue[2].event.bookmarkId = "b2"
  /\ state0.reverseQueue[2].retryCount = 1
  /\ Len(state.reverseQueue) = 1
  /\ state.reverseQueue[1].retryCount = 2
  /\ Len(storageWrites) = 1

(***************************************************************************)
(* The managed state record.                                               *)
(*                                                                         *)
(* An object is a function on the property names it has; a property the    *)
(* object lacks is not in its DOMAIN.  A number that may be null is <<>>   *)
(* (null) or <<n>>.                                                        *)
(***************************************************************************)
Field(object, name, default) ==
  IF name \in DOMAIN object THEN object[name] ELSE default

\* the first property name of an object whose value is v
KeyOf(object, v) == CHOOSE k \in DOMAIN object : object[k] = v

Truthy(v) == IsNonEmptyString(v)

migrateWsDedupe(raw, t) ==
  [byClient |-> Field(raw, "byClient", <<>>),
   updatedAt |-> Field(raw, "updatedAt", t)]

migrateState(raw, t) ==
  [managedFolderIds |-> Field(raw, "managedFolderIds", <<>>),
   managedBookmarkIds |-> Field(raw, "managedBookmarkIds", <<>>),
   reverseQueue |-> Field(raw, "reverseQueue", <<>>),
   bookmarkIdToManagedKey |-> Field(raw, "bookmarkIdToManagedKey", <<>>),
   suppressionState |->
     Field(raw, "suppressionState",
           [applyEpoch |-> FALSE, epochStartedAt |-> <<>>, cooldownUntil |-> <<>>]),
   importInProgress |-> Field(raw, "importInProgress", FALSE),
   wsDedupe |-> migrateWsDedupe(Field(raw, "wsDedupe", <<>>), t)]

(***************************************************************************)
(* The suppression engine.                                                 *)
(***************************************************************************)
\* deactivating clears epochStartedAt only
setApplyEpoch_KeepsCooldown(st, active, t) ==
  [st EXCEPT !.suppressionState =
     IF active
     THEN [@ EXCEPT !.applyEpoch = TRUE, !.epochStartedAt = <<t>>]
     ELSE [@ EXCEPT !.applyEpoch = FALSE, !.epochStartedAt = <<>>]]

setApplyEpoch(st, active, t) ==
  [st EXCEPT !.suppressionState =
     IF active
     THEN [@ EXCEPT !.applyEpoch = TRUE, !.epochStartedAt = <<t>>]
     ELSE [applyEpoch |-> FALSE, epochStartedAt |-> <<>>, cooldownUntil |-> <<>>]]

setCooldown(st, durationMs, t) ==
  [st EXCEPT !.suppressionState.cooldownUntil = <<t + durationMs>>]

\* the applyEpoch test alone, without the cooldown test
shouldSuppressReverseEnqueue_EpochOnly(st, t) ==
  st.suppressionState.applyEpoch

shouldSuppressReverseEnqueue(st, t) ==
  \/ st.suppressionState.applyEpoch
  \/ /\ st.suppressionState.cooldownUntil # <<>>
     /\ t < st.suppressionState.cooldownUntil[1]

(***************************************************************************)
(* The dedupe ledger: recordAndCheckDedupe(state, clientId, key).          *)
(* accepted is its return value, state the state object it leaves.         *)
(***************************************************************************)
\* a duplicate call stamps the key again
recordAndCheckDedupe_Refreshes(st, clientId, key, t) ==
  LET dedupe == migrateWsDedupe(st.wsDedupe, t)
      clientBucket == Field(dedupe.byClient, clientId, <<>>)
      live == {candidate \in DOMAIN clientBucket :
                 ~((t - clientBucket[candidate]) > TtlMs)}
      swept == [candidate \in live |-> clientBucket[candidate]]
  IN [accepted |-> key \notin live,
      state |-> [st EXCEPT !.wsDedupe =
                   [byClient |-> (clientId :> ((key :> t) @@ swept)) @@ dedupe.byClient,
                    updatedAt |-> t]]]

recordAndCheckDedupe(st, clientId, key, t) ==
  LET dedupe == migrateWsDedupe(st.wsDedupe, t)
      clientBucket == Field(dedupe.byClient, clientId, <<>>)
      live == {candidate \in DOMAIN clientBucket :
                 ~((t - clientBucket[candidate]) > TtlMs)}
      swept == [candidate \in live |-> clientBucket[candidate]]
      fresh == key \notin live
      bucket == IF fresh THEN (key :> t) @@ swept ELSE swept
  IN [accepted |-> fresh,
      state |-> [st EXCEPT !.wsDedupe =
                   [byClient |-> (clientId :> bucket) @@ dedupe.byClient,
                    updatedAt |-> t]]]

(***************************************************************************)
(* rsLog records of the worker.                                            *)
(***************************************************************************)
WorkerLog(event, reason, eventId, bookmarkId, type) ==
  [event |-> event, reason |-> reason, eventId |-> eventId,
   bookmarkId |-> bookmarkId, type |-> type]

(***************************************************************************)
(* enqueueReverseEvent(state, event): the state object it leaves, the      *)
(* record it logs and whether it called scheduleReverseFlushSoon().        *)
(***************************************************************************)
\* the event is queued without asking the dedupe ledger
enqueueReverseEvent_NoDedupe(st, event, t) ==
  LET checked == recordAndCheckDedupe(st, "outbound", "outbound:" \o event.eventId, t)
  IN [state |-> [checked.state EXCEPT !.reverseQueue =
                   Append(@, [event |-> event, retryCount |-> 0,
                              enqueuedAt |-> toISOString(t)])],
      log |-> WorkerLog("enqueue", UNDEFINED, event.eventId, UNDEFINED, event.type),
      scheduled |-> TRUE]

enqueueReverseEvent(st, event, t) ==
  LET checked == recordAndCheckDedupe(st, "outbound", "outbound:" \o event.eventId, t)
  IN IF ~checked.accepted
     THEN [state |-> checked.state,
           log |-> WorkerLog("capture_skip", "duplicate_outbound_event",
                             event.eventId, UNDEFINED, event.type),
           scheduled |-> FALSE]
     ELSE [state |-> [checked.state EXCEPT !.reverseQueue =
                        Append(@, [event |-> event, retryCount |-> 0,
                                   enqueuedAt |-> toISOString(t)])],
           log |-> WorkerLog("enqueue", UNDEFINED, event.eventId, UNDEFINED,
                             event.type),
           scheduled |-> TRUE]

(***************************************************************************)
(* Managed-ID helpers.                                                     *)
(***************************************************************************)
\* null is UNDEFINED
getManagedBookmarkKeyById(st, id) ==
  IF id \in DOMAIN st.bookmarkIdToManagedKey
  THEN st.bookmarkIdToManagedKey[id]
  ELSE IF \E key \in DOMAIN st.managedBookmarkIds : st.managedBookmarkIds[key] = id
       THEN KeyOf(st.managedBookmarkIds, id)
       ELSE UNDEFINED

getManagedFolderKeyById(st, id) ==
  LET fids == [key \in DOMAIN st.managedFolderIds \ {"__root__"} |->
                 st.managedFolderIds[key]]
  IN IF \E key \in DOMAIN fids : fids[key] = id THEN KeyOf(fids, id) ELSE UNDEFINED

(***************************************************************************)
(* The browser's bookmark store (chrome.bookmarks).                        *)
(*   bookmarks.children : folder id -> the ids of its children, in order   *)
(*   bookmarks.title    : node id -> title                                 *)
(* A node is a folder iff it is in DOMAIN bookmarks.children.              *)
(***************************************************************************)
\* the id chrome gives the k-th node created
NewNodeId(k) == "n" \o ToString(k)

\* the k-th crypto.randomUUID() pair of a capture handler
NewEventId(k) == "e" \o ToString(k)
NewBatchId(k) == "batch-" \o ToString(k)

PositionIn(s, x) == CHOOSE i \in 1..Len(s) : s[i] = x

Without(s, x) == SelectSeq(s, LAMBDA y : y # x)

\* s with x put at (0-based) index k
InsertAt(s, k, x) ==
  LET at == IF k > Len(s) THEN Len(s) ELSE k
  IN SubSeq(s, 1, at) \o <<x>> \o SubSeq(s, at + 1, Len(s))

HasParent(bm, id) ==
  \E f \in DOMAIN bm.children : \E i \in 1..Len(bm.children[f]) : bm.children[f][i] = id

ParentOf(bm, id) ==
  CHOOSE f \in DOMAIN bm.children :
    \E i \in 1..Len(bm.children[f]) : bm.children[f][i] = id

RECURSIVE Subtree(_, _)
Subtree(bm, id) ==
  {id} \cup
  (IF id \in DOMAIN bm.children
   THEN UNION {Subtree(bm, bm.children[id][i]) : i \in 1..Len(bm.children[id])}
   ELSE {})

\* the arguments chrome.bookmarks hands to a listener
BookmarkEvent(type, id, parentId, oldParentId, index) ==
  [type |-> type, id |-> id, parentId |-> parentId, oldParentId |-> oldParentId,
   index |-> index]

\* an event in flight to the listeners; origin records who made the change
\* ("user" or "inbound") and is not seen by the handlers
Fired(event, origin) == [origin |-> origin] @@ event

\* a call of chrome.bookmarks that rejects: nothing changes, nothing is fired
StoreFailed(bm) ==
  [ok |-> FALSE, bookmarks |-> bm, event |-> BookmarkEvent("none", "", "", "", 0)]

\* chrome.bookmarks.create({ parentId, title, url }) giving the node the id id
bmCreate(bm, id, parentId, ttl, isFolder) ==
  IF parentId \notin DOMAIN bm.children THEN StoreFailed(bm)
  ELSE [ok |-> TRUE,
        bookmarks |->
          [children |->
             LET grown == [bm.children EXCEPT ![parentId] = Append(@, id)]
             IN IF isFolder THEN (id :> <<>>) @@ grown ELSE grown,
           title |-> (id :> ttl) @@ bm.title],
        event |-> BookmarkEvent("created", id, parentId, UNDEFINED,
                                Len(bm.children[parentId]))]

\* chrome.bookmarks.update(id, { title, url })
bmUpdate(bm, id, ttl) ==
  IF id \notin DOMAIN bm.title THEN StoreFailed(bm)
  ELSE [ok |-> TRUE,
        bookmarks |-> [bm EXCEPT !.title = (id :> ttl) @@ @],
        event |-> BookmarkEvent("changed", id, UNDEFINED, UNDEFINED, 0)]

\* chrome.bookmarks.remove(id) and chrome.bookmarks.removeTree(id)
bmRemove(bm, id, wholeTree) ==
  IF \/ id \notin DOMAIN bm.title
     \/ ~HasParent(bm, id)
     \/ ~(wholeTree \/ Subtree(bm, id) = {id})
  THEN StoreFailed(bm)
  ELSE LET gone == Subtree(bm, id)
           parentId == ParentOf(bm, id)
       IN [ok |-> TRUE,
           bookmarks |->
             [children |->
                [f \in DOMAIN bm.children \ gone |->
                   IF f = parentId THEN Without(bm.children[f], id) ELSE bm.children[f]],
              title |-> [n \in DOMAIN bm.title \ gone |-> bm.title[n]]],
           event |-> BookmarkEvent("removed", id, parentId, UNDEFINED, 0)]

\* chrome.bookmarks.move(id, { parentId, index })
bmMove(bm, id, parentId, index) ==
  IF \/ id \notin DOMAIN bm.title
     \/ ~HasParent(bm, id)
     \/ parentId \notin DOMAIN bm.children
     \/ parentId \in Subtree(bm, id)
  THEN StoreFailed(bm)
  ELSE LET oldParentId == ParentOf(bm, id)
           taken == [bm.children EXCEPT ![oldParentId] = Without(@, id)]
           at == IF index = <<>> \/ index[1] > Len(taken[parentId])
                 THEN Len(taken[parentId]) ELSE index[1]
       IN [ok |-> TRUE,
           bookmarks |->
             [bm EXCEPT !.children = [taken EXCEPT ![parentId] = InsertAt(@, at, id)]],
           event |-> BookmarkEvent("moved", id, parentId, oldParentId, at)]

\* titles carry no surrounding white space, so title.trim() is the title
resolveFolderNameFromBookmarkId(bm, id) ==
  IF ~Truthy(id) THEN ""
  ELSE IF id \in DOMAIN bm.title THEN bm.title[id] ELSE ""

\* the number of links before bookmarkId among the children of parentId
resolveLinkIndexWithinParent(bm, parentId, bookmarkId) ==
  IF ~Truthy(parentId) \/ ~Truthy(bookmarkId) \/ parentId \notin DOMAIN bm.children
  THEN <<>>
  ELSE LET children == bm.children[parentId]
       IN IF bookmarkId \in DOMAIN bm.children
             \/ ~\E i \in 1..Len(children) : children[i] = bookmarkId
          THEN <<>>
          ELSE <<Cardinality({i \in 1..(PositionIn(children, bookmarkId) - 1) :
                                children[i] \notin DOMAIN bm.children})>>

(***************************************************************************)
(* The store and the managed state a payload apply leaves:                 *)
(*   Projects (100) > P (201, note:P) > T (b1, P|0), next to Other (900).  *)
(***************************************************************************)
SourcePaths == {"P"}
FolderNames == {"Projects", "P", "Other"}

StartsWithNote(key) == \E p \in SourcePaths : key = "note:" \o p
StartsWithFolder(key) == \E n \in FolderNames : key = "folder:" \o n
\* parentKey.slice("note:".length).trim()
SourcePath(key) == CHOOSE p \in SourcePaths : key = "note:" \o p

SeededBookmarks ==
  [children |-> ("1" :> <<"100", "900">>) @@ ("100" :> <<"201">>)
                @@ ("201" :> <<"b1">>) @@ ("900" :> <<>>),
   title |-> ("1" :> "Bookmarks bar") @@ ("100" :> "Projects") @@ ("201" :> "P")
             @@ ("900" :> "Other") @@ ("b1" :> "T")]

SeededState(suppressionState, importInProgress) ==
  [managedFolderIds |-> ("__root__" :> "100") @@ ("note:P" :> "201"),
   managedBookmarkIds |-> ("P|0" :> "b1"),
   reverseQueue |-> <<>>,
   bookmarkIdToManagedKey |-> ("b1" :> "P|0"),
   suppressionState |-> suppressionState,
   importInProgress |-> importInProgress,
   wsDedupe |-> [byClient |-> <<>>, updatedAt |-> 0]]

(***************************************************************************)
(* Scheduling of handler invocations.                                      *)
(***************************************************************************)
Slots == DOMAIN tasks

HasFreeSlot == \E i \in Slots : tasks[i] = Idle

FreeSlot == CHOOSE i \in Slots : tasks[i] = Idle /\ \A j \in Slots : tasks[j] = Idle => i <= j

\* the clock moves on
Tick(delta) ==
  /\ ticks < MaxTicks
  /\ ticks' = ticks + 1
  /\ now' = now + delta
  /\ UNCHANGED <<storage, bookmarks, pendingEvents, tasks, uuids, nodeCount, syslog,
                 reverseFlushTimer, reverseFlushInFlight, wsReady, wsInboundQueue,
                 wsOutboundQueue, wire, applied, echoed, edits, delivered>>
  /\ WorkerFrame

(***************************************************************************)
(* The user edits the bookmark store; chrome fires the event.              *)
(***************************************************************************)
UserEdit(result) ==
  /\ edits < MaxEdits
  /\ result.ok
  /\ edits' = edits + 1
  /\ bookmarks' = result.bookmarks
  /\ pendingEvents' = Append(pendingEvents, Fired(result.event, "user"))
  /\ UNCHANGED <<storage, now, tasks, uuids, syslog, reverseFlushTimer,
                 reverseFlushInFlight, wsReady, wsInboundQueue, wsOutboundQueue,
                 wire, applied, echoed, ticks, delivered>>
  /\ WorkerFrame

UserCreates(parentId) ==
  /\ UserEdit(bmCreate(bookmarks, NewNodeId(nodeCount + 1), parentId, "T", FALSE))
  /\ nodeCount' = nodeCount + 1

UserChanges(id) ==
  /\ UserEdit(bmUpdate(bookmarks, id, "Edited"))
  /\ UNCHANGED nodeCount

UserRemoves(id) ==
  /\ id \in DOMAIN bookmarks.title
  /\ HasParent(bookmarks, id)
  /\ UserEdit(bmRemove(bookmarks, id, FALSE))
  /\ UNCHANGED nodeCount

UserMoves(id, parentId) ==
  /\ id \in DOMAIN bookmarks.title
  /\ HasParent(bookmarks, id)
  /\ UserEdit(bmMove(bookmarks, id, parentId, <<0>>))
  /\ UNCHANGED nodeCount

(***************************************************************************)
(* The capture handlers: handleBookmarkCreated, handleBookmarkChanged,     *)
(* handleBookmarkRemoved, handleBookmarkMoved.                             *)
(*                                                                         *)
(* A capture task is [kind, pc, ev, st, parentName, moveIndex]:            *)
(*   pc = "loaded"   : suspended at `await getState()`, st is what it read *)
(*   pc = "resolved" : suspended at the store lookup of the key or index   *)
(***************************************************************************)
\* the listener is invoked and runs to `await getState()`
DispatchBookmarkEvent ==
  /\ pendingEvents # <<>>
  /\ HasFreeSlot
  /\ tasks' = [tasks EXCEPT ![FreeSlot] =
                 [kind |-> "capture", pc |-> "loaded", ev |-> Head(pendingEvents),
                  st |-> migrateState(storage, now), parentName |-> "",
                  moveIndex |-> <<>>]]
  /\ pendingEvents' = Tail(pendingEvents)
  /\ UNCHANGED <<storage, now, bookmarks, uuids, nodeCount, syslog,
                 reverseFlushTimer, reverseFlushInFlight, wsReady, wsInboundQueue,
                 wsOutboundQueue, wire, applied, echoed, ticks, edits, delivered>>
  /\ WorkerFrame

\* why the handler returns before building an event ("" when it goes on)
captureSkipReason(task, t) ==
  IF task.ev.type = "created" /\ task.st.importInProgress THEN "import_in_progress"
  ELSE IF shouldSuppressReverseEnqueue(task.st, t) THEN "suppressed"
  ELSE ""

\* the type the capture_skip record names
captureSkipType(ev) ==
  CASE ev.type = "created" -> "bookmark_created"
    [] ev.type = "changed" -> "bookmark_changed"
    [] ev.type = "removed" -> "bookmark_removed"
    [] ev.type = "moved" -> "bookmark_moved"

\* the handler awaits the bookmark store before it builds the event
captureLooksUp(task) ==
  \/ /\ task.ev.type = "created"
     /\ ~Truthy(getManagedBookmarkKeyById(task.st, task.ev.id))
     /\ ~StartsWithNote(getManagedFolderKeyById(task.st, task.ev.parentId))
     /\ ~StartsWithFolder(getManagedFolderKeyById(task.st, task.ev.parentId))
  \/ /\ task.ev.type = "moved"
     /\ task.ev.parentId = task.ev.oldParentId

\* the key is never derived from the parent
createdKey_FallbackOnly(task) ==
  [managedKey |-> "bookmark:" \o task.ev.id, recorded |-> FALSE]

\* handleBookmarkCreated: the managedKey and whether it is recorded
createdKey(task) ==
  LET own == getManagedBookmarkKeyById(task.st, task.ev.id)
      parentKey == getManagedFolderKeyById(task.st, task.ev.parentId)
  IN IF Truthy(own) THEN [managedKey |-> own, recorded |-> FALSE]
     ELSE IF StartsWithNote(parentKey)
     THEN [managedKey |-> SourcePath(parentKey) \o "|" \o ToString(task.ev.index),
           recorded |-> TRUE]
     ELSE IF StartsWithFolder(parentKey)
     THEN [managedKey |-> parentKey, recorded |-> TRUE]
     ELSE IF Truthy(task.parentName)
     THEN [managedKey |-> "folder:" \o task.parentName, recorded |-> TRUE]
     ELSE [managedKey |-> "bookmark:" \o task.ev.id, recorded |-> FALSE]

\* the ReverseEvent the handler builds, with the k-th UUID pair
captureEvent(task, k, t) ==
  LET bookmarkKey == getManagedBookmarkKeyById(task.st, task.ev.id)
      folderKey == getManagedFolderKeyById(task.st, task.ev.id)
      ownOrFallback == IF Truthy(bookmarkKey) THEN bookmarkKey
                       ELSE "bookmark:" \o task.ev.id
  IN [batchId |-> NewBatchId(k),
      eventId |-> NewEventId(k),
      type |-> CASE task.ev.type = "created" -> "bookmark_created"
                 [] task.ev.type = "changed" ->
                      IF ~Truthy(bookmarkKey) /\ Truthy(folderKey)
                      THEN "folder_renamed" ELSE "bookmark_updated"
                 [] task.ev.type = "removed" -> "bookmark_deleted"
                 [] task.ev.type = "moved" -> "bookmark_updated",
      bookmarkId |-> task.ev.id,
      managedKey |-> CASE task.ev.type = "created" -> createdKey(task).managedKey
                       [] task.ev.type = "changed" ->
                            IF Truthy(bookmarkKey) THEN bookmarkKey
                            ELSE IF Truthy(folderKey) THEN folderKey
                            ELSE "bookmark:" \o task.ev.id
                       [] OTHER -> ownOrFallback,
      parentId |-> IF task.ev.type = "moved" THEN task.ev.parentId ELSE UNDEFINED,
      moveIndex |-> task.moveIndex,
      occurredAt |-> t]

\* the state object the handler hands to enqueueReverseEvent
captureState(task) ==
  IF task.ev.type = "created" /\ createdKey(task).recorded
  THEN [task.st EXCEPT !.bookmarkIdToManagedKey =
          updateBookmarkKeyMapping(@, task.ev.id, createdKey(task).managedKey)]
  ELSE task.st

\* importInProgress or suppression: rsLog("capture_skip") and return
CaptureSkips(i) ==
  /\ tasks[i].kind = "capture"
  /\ tasks[i].pc = "loaded"
  /\ captureSkipReason(tasks[i], now) # ""
  /\ syslog' = syslog \cup
       {WorkerLog("capture_skip", captureSkipReason(tasks[i], now), UNDEFINED,
                  tasks[i].ev.id, captureSkipType(tasks[i].ev))}
  /\ tasks' = [tasks EXCEPT ![i] = Idle]
  /\ UNCHANGED <<storage, now, bookmarks, pendingEvents, uuids, nodeCount,
                 reverseFlushTimer, reverseFlushInFlight, wsReady, wsInboundQueue,
                 wsOutboundQueue, wire, applied, echoed, ticks, edits, delivered>>
  /\ WorkerFrame

\* `await resolveFolderNameFromBookmarkId(...)`, `await resolveLinkIndexWithinParent(...)`
CaptureLooksUp(i) ==
  /\ tasks[i].kind = "capture"
  /\ tasks[i].pc = "loaded"
  /\ captureSkipReason(tasks[i], now) = ""
  /\ captureLooksUp(tasks[i])
  /\ tasks' = [tasks EXCEPT ![i] =
       [@ EXCEPT !.pc = "resolved",
                 !.parentName =
                   IF tasks[i].ev.type = "created"
                   THEN resolveFolderNameFromBookmarkId(bookmarks, tasks[i].ev.parentId)
                   ELSE "",
                 !.moveIndex =
                   IF tasks[i].ev.type = "moved"
                   THEN resolveLinkIndexWithinParent(bookmarks, tasks[i].ev.parentId,
                                                     tasks[i].ev.id)
                   ELSE <<>>]]
  /\ UNCHANGED <<storage, now, bookmarks, pendingEvents, uuids, nodeCount, syslog,
                 reverseFlushTimer, reverseFlushInFlight, wsReady, wsInboundQueue,
                 wsOutboundQueue, wire, applied, echoed, ticks, edits, delivered>>
  /\ WorkerFrame

\* build the event, enqueueReverseEvent, chrome.storage.local.set
CaptureEnqueues(i) ==
  /\ tasks[i].kind = "capture"
  /\ \/ /\ tasks[i].pc = "loaded"
        /\ captureSkipReason(tasks[i], now) = ""
        /\ ~captureLooksUp(tasks[i])
     \/ tasks[i].pc = "resolved"
  /\ LET enqueued == enqueueReverseEvent(captureState(tasks[i]),
                                         captureEvent(tasks[i], uuids + 1, now), now)
     IN /\ storage' = enqueued.state
        /\ syslog' = syslog \cup {enqueued.log}
        /\ reverseFlushTimer' = (reverseFlushTimer \/ enqueued.scheduled)
        /\ echoed' = IF tasks[i].ev.origin = "inbound" /\ enqueued.scheduled
                      THEN echoed \cup {NewEventId(uuids + 1)} ELSE echoed
  /\ uuids' = uuids + 1
  /\ tasks' = [tasks EXCEPT ![i] = Idle]
  /\ UNCHANGED <<now, bookmarks, pendingEvents, nodeCount, reverseFlushInFlight,
                 wsReady, wsInboundQueue, wsOutboundQueue, wire, applied, ticks,
                 edits, delivered>>
  /\ WorkerFrame

(***************************************************************************)
(* Bookmark import gating: handleImportBegan, handleImportEnded.           *)
(* An import task is [kind, began, st], suspended at `await getState()`.   *)
(***************************************************************************)
\* chrome.bookmarks.onImportBegan (began) or onImportEnded fires and the
\* listener runs to `await getState()`
ImportFires(began) ==
  /\ edits < MaxEdits
  /\ HasFreeSlot
  /\ edits' = edits + 1
  /\ tasks' = [tasks EXCEPT ![FreeSlot] =
                 [kind |-> "import", began |-> began,
                  st |-> migrateState(storage, now)]]
  /\ UNCHANGED <<storage, now, bookmarks, pendingEvents, uuids, nodeCount, syslog,
                 reverseFlushTimer, reverseFlushInFlight, wsReady, wsInboundQueue,
                 wsOutboundQueue, wire, applied, echoed, ticks, delivered>>
  /\ WorkerFrame

\* state.importInProgress = began; rsLog; chrome.storage.local.set
ImportSaves(i) ==
  /\ tasks[i].kind = "import"
  /\ storage' = [tasks[i].st EXCEPT !.importInProgress = tasks[i].began]
  /\ syslog' = syslog \cup
       {WorkerLog(IF tasks[i].began THEN "import_begin" ELSE "import_end",
                  UNDEFINED, UNDEFINED, UNDEFINED, UNDEFINED)}
  /\ tasks' = [tasks EXCEPT ![i] = Idle]
  /\ UNCHANGED <<now, bookmarks, pendingEvents, uuids, nodeCount, reverseFlushTimer,
                 reverseFlushInFlight, wsReady, wsInboundQueue, wsOutboundQueue,
                 wire, applied, echoed, ticks, edits, delivered>>
  /\ WorkerFrame

(***************************************************************************)
(* Capture under suppression: the user edits the store while the persisted *)
(* suppression state is idle, in an apply epoch, or in a cooldown.         *)
(***************************************************************************)
SuppressionStates ==
  {[applyEpoch |-> a, epochStartedAt |-> IF a THEN <<0>> ELSE <<>>, cooldownUntil |-> c] :
     a \in BOOLEAN, c \in {<<>>, <<CooldownMs>>}}

InitCapture ==
  /\ UnitIdle
  /\ WorkerStart({SeededState(s, importing) :
                    s \in SuppressionStates, importing \in BOOLEAN},
                 SeededBookmarks, "OPEN")

NextCapture ==
  \/ \E parentId \in {"201", "900"} : UserCreates(parentId)
  \/ \E id \in {"b1", "201"} : UserChanges(id)
  \/ UserRemoves("b1")
  \/ \E parentId \in {"201", "900"} : UserMoves("b1", parentId)
  \/ DispatchBookmarkEvent
  \/ \E i \in Slots : CaptureSkips(i)
  \/ \E i \in Slots : CaptureLooksUp(i)
  \/ \E i \in Slots : CaptureEnqueues(i)
  \/ \E began \in BOOLEAN : ImportFires(began)
  \/ \E i \in Slots : ImportSaves(i)
  \/ Tick(CooldownMs)

SpecCapture == InitCapture /\ [][NextCapture]_vars

\* the state a capture handler loaded is in an apply epoch or in a cooldown
LoadedSuppressed(st, t) ==
  \/ st.suppressionState.applyEpoch = TRUE
  \/ \E until \in {st.suppressionState.cooldownUntil[k] :
                      k \in DOMAIN st.suppressionState.cooldownUntil} : until > t

\* C2: a capture handler (created, changed, removed, moved) whose loaded
\* state has applyEpoch = true or cooldownUntil > now, now being the clock
\* when the handler resumes from its load, returns in that step without
\* writing: the persisted record, and so the persisted reverse queue, is the
\* same before and after it, and it draws no event id.
C2_SuppressedCaptureAppendsNothing ==
  [][\A i \in Slots :
       (/\ tasks[i].kind = "capture"
        /\ tasks[i].pc = "loaded"
        /\ LoadedSuppressed(tasks[i].st, now)
        /\ tasks'[i] # tasks[i])
       => /\ tasks'[i] = Idle
          /\ storage' = storage
          /\ Field(storage', "reverseQueue", <<>>) = Field(storage, "reverseQueue", <<>>)
          /\ uuids' = uuids]_vars

\* a handler has returned with capture_skip("suppressed") while the loaded
\* state was in a cooldown only (no apply epoch), and nothing was queued
C2_Witness ==
  /\ storage.suppressionState.applyEpoch = FALSE
  /\ storage.suppressionState.cooldownUntil = <<CooldownMs>>
  /\ now < CooldownMs
  /\ edits >= 2
  /\ pendingEvents = <<>>
  /\ \A i \in Slots : tasks[i] = Idle
  /\ storage.reverseQueue = <<>>
  /\ \E id \in {"b1"} :
       /\ WorkerLog("capture_skip", "suppressed", UNDEFINED, id, "bookmark_moved")
            \in syslog
       /\ WorkerLog("capture_skip", "suppressed", UNDEFINED, id, "bookmark_changed")
            \in syslog

(***************************************************************************)
(* WebSocket envelopes.                                                    *)
(***************************************************************************)
\* value.trim() of a string, "" of anything else; the strings of the model
\* carry no surrounding white space
readBridgeString(value) == IF value = UNDEFINED THEN "" ELSE value

mapLegacyAckStatus(status) ==
  CASE status = "applied" -> "applied"
    [] status = "duplicate" -> "duplicate"
    [] status \in {"skipped_ambiguous", "skipped_unmanaged"} -> "skipped"
    [] OTHER -> "rejected"

\* mapWsAckToLegacyStatus without its branch for skipped
mapWsAckToLegacyStatus_NoSkipped(wsStatus, legacyStatus) ==
  IF IsNonEmptyString(legacyStatus) THEN legacyStatus
  ELSE CASE wsStatus = "applied" -> "applied"
         [] wsStatus = "duplicate" -> "duplicate"
         [] OTHER -> "rejected_invalid"

mapWsAckToLegacyStatus(wsStatus, legacyStatus) ==
  IF IsNonEmptyString(legacyStatus) THEN legacyStatus
  ELSE CASE wsStatus = "applied" -> "applied"
         [] wsStatus = "duplicate" -> "duplicate"
         [] wsStatus = "skipped" -> "skipped_ambiguous"
         [] OTHER -> "rejected_invalid"

\* sendWsEnvelope(envelope) for each of envelopes, in order
sendWsEnvelopes(envelopes) ==
  IF wsReady = "OPEN"
  THEN wire' = wire \o envelopes /\ UNCHANGED wsOutboundQueue
  ELSE wsOutboundQueue' = wsOutboundQueue \o envelopes /\ UNCHANGED wire

\* the result object of applyInboundActionEvent
ApplyAck(status, reason, resolvedKey) ==
  [status |-> status, reason |-> reason, resolvedKey |-> resolvedKey]

\* the ack envelope flushWsInboundQueue sends for envelope (its own eventId
\* is a fresh createWsEventId() and is left out)
InboundAckEnvelope(envelope, ack) ==
  [type |-> "ack", clientId |-> envelope.clientId, correlationId |-> envelope.eventId,
   idempotencyKey |-> envelope.idempotencyKey,
   status |-> mapLegacyAckStatus(ack.status), legacyStatus |-> ack.status,
   reason |-> ack.reason, resolvedKey |-> ack.resolvedKey]

(***************************************************************************)
(* The action envelopes the bridge sends.                                  *)
(***************************************************************************)
InboundAction(eventId, idempotencyKey, op, target, payload) ==
  [type |-> "action", eventId |-> eventId, clientId |-> "c1",
   idempotencyKey |-> idempotencyKey, op |-> op, target |-> target,
   payload |-> payload]

ActionPayload(bookmarkId, parentId, ttl, url) ==
  [bookmarkId |-> bookmarkId, parentId |-> parentId, title |-> ttl, url |-> url,
   managedKey |-> UNDEFINED, index |-> <<>>]

\* a flat payload: one folder with one link
SnapshotPayload ==
  [rootFolderName |-> "Projects",
   desired |-> <<[key |-> "note:P", name |-> "P",
                  links |-> <<[key |-> "P|0", title |-> "T"]>>]>>]

InboundEnvelopes ==
  {InboundAction("in-created", "k-created", "bookmark_created", "P|1",
                 ActionPayload(UNDEFINED, "201", "T", "https://t")),
   InboundAction("in-updated", "k-updated", "bookmark_updated", "P|0",
                 ActionPayload("b1", UNDEFINED, "T2", UNDEFINED)),
   InboundAction("in-deleted", "k-deleted", "bookmark_deleted", "P|0",
                 ActionPayload("b1", UNDEFINED, UNDEFINED, UNDEFINED)),
   InboundAction("in-renamed", "k-renamed", "folder_renamed", "note:P",
                 ActionPayload("201", UNDEFINED, "P2", UNDEFINED)),
   InboundAction("in-moved", "k-moved", "bookmark_moved", "P|0",
                 ActionPayload("b1", "900", UNDEFINED, UNDEFINED)),
   InboundAction("in-snapshot", "k-snapshot", "snapshot", "snapshot", SnapshotPayload)}

(***************************************************************************)
(* applyInboundActionEvent(envelope): the ack it returns and what the      *)
(* store call it makes does (mutated: the call was made and succeeded).    *)
(***************************************************************************)
applyRejected(bm, eventReason) ==
  [ack |-> ApplyAck("rejected_invalid", eventReason, UNDEFINED), mutated |-> FALSE,
   bookmarks |-> bm, event |-> BookmarkEvent("none", "", "", "", 0)]

\* the store call returned (ack is the result) or threw (skipped_ambiguous)
applyCalled(bm, called, ack) ==
  IF called.ok
  THEN [ack |-> ack, mutated |-> TRUE, bookmarks |-> called.bookmarks,
        event |-> called.event]
  ELSE [ack |-> ApplyAck("skipped_ambiguous", "store_error", UNDEFINED),
        mutated |-> FALSE, bookmarks |-> bm,
        event |-> BookmarkEvent("none", "", "", "", 0)]

\* readBridgeString(a) || readBridgeString(b) || c
FirstTruthy(a, b, c) ==
  IF Truthy(readBridgeString(a)) THEN readBridgeString(a)
  ELSE IF Truthy(readBridgeString(b)) THEN readBridgeString(b) ELSE c

\* applyInboundActionEvent with the move made whenever a bookmarkId is given
applyInboundActionEvent_MoveUnchecked(bm, envelope, newId) ==
  LET payload == envelope.payload
      bookmarkId == FirstTruthy(payload.bookmarkId, envelope.target, "")
      parentId == readBridgeString(payload.parentId)
  IN CASE envelope.op = "bookmark_created" ->
            IF ~Truthy(parentId) THEN applyRejected(bm, "missing_parent_id")
            ELSE applyCalled(bm,
                   bmCreate(bm, newId, parentId,
                            IF payload.title = UNDEFINED THEN "" ELSE payload.title,
                            payload.url = UNDEFINED),
                   ApplyAck("applied", UNDEFINED,
                            FirstTruthy(payload.managedKey, envelope.target, newId)))
       [] envelope.op = "bookmark_updated" ->
            IF ~Truthy(bookmarkId) THEN applyRejected(bm, "missing_bookmark_id")
            ELSE applyCalled(bm,
                   bmUpdate(bm, bookmarkId,
                            IF payload.title = UNDEFINED
                            THEN Field(bm.title, bookmarkId, "") ELSE payload.title),
                   ApplyAck("applied", UNDEFINED,
                            FirstTruthy(payload.managedKey, envelope.target, bookmarkId)))
       [] envelope.op = "bookmark_deleted" ->
            IF ~Truthy(bookmarkId) THEN applyRejected(bm, "missing_bookmark_id")
            ELSE applyCalled(bm, bmRemove(bm, bookmarkId, FALSE),
                             ApplyAck("applied", UNDEFINED, UNDEFINED))
       [] envelope.op = "folder_renamed" ->
            IF ~Truthy(bookmarkId) THEN applyRejected(bm, "missing_folder_id")
            ELSE applyCalled(bm,
                   bmUpdate(bm, bookmarkId,
                            IF payload.title = UNDEFINED THEN "" ELSE payload.title),
                   ApplyAck("applied", UNDEFINED, UNDEFINED))
       [] envelope.op = "bookmark_moved" ->
            IF ~Truthy(bookmarkId)
            THEN applyRejected(bm, "missing_move_fields")
            ELSE applyCalled(bm, bmMove(bm, bookmarkId, parentId, payload.index),
                             ApplyAck("applied", UNDEFINED, UNDEFINED))
       [] OTHER -> applyRejected(bm, "unsupported_action")

applyInboundActionEvent(bm, envelope, newId) ==
  LET payload == envelope.payload
      bookmarkId == FirstTruthy(payload.bookmarkId, envelope.target, "")
      parentId == readBridgeString(payload.parentId)
  IN CASE envelope.op = "bookmark_created" ->
            IF ~Truthy(parentId) THEN applyRejected(bm, "missing_parent_id")
            ELSE applyCalled(bm,
                   bmCreate(bm, newId, parentId,
                            IF payload.title = UNDEFINED THEN "" ELSE payload.title,
                            payload.url = UNDEFINED),
                   ApplyAck("applied", UNDEFINED,
                            FirstTruthy(payload.managedKey, envelope.target, newId)))
       [] envelope.op = "bookmark_updated" ->
            IF ~Truthy(bookmarkId) THEN applyRejected(bm, "missing_bookmark_id")
            ELSE applyCalled(bm,
                   bmUpdate(bm, bookmarkId,
                            IF payload.title = UNDEFINED
                            THEN Field(bm.title, bookmarkId, "") ELSE payload.title),
                   ApplyAck("applied", UNDEFINED,
                            FirstTruthy(payload.managedKey, envelope.target, bookmarkId)))
       [] envelope.op = "bookmark_deleted" ->
            IF ~Truthy(bookmarkId) THEN applyRejected(bm, "missing_bookmark_id")
            ELSE applyCalled(bm, bmRemove(bm, bookmarkId, FALSE),
                             ApplyAck("applied", UNDEFINED, UNDEFINED))
       [] envelope.op = "folder_renamed" ->
            IF ~Truthy(bookmarkId) THEN applyRejected(bm, "missing_folder_id")
            ELSE applyCalled(bm,
                   bmUpdate(bm, bookmarkId,
                            IF payload.title = UNDEFINED THEN "" ELSE payload.title),
                   ApplyAck("applied", UNDEFINED, UNDEFINED))
       [] envelope.op = "bookmark_moved" ->
            IF ~Truthy(bookmarkId) \/ ~Truthy(parentId)
            THEN applyRejected(bm, "missing_move_fields")
            ELSE applyCalled(bm, bmMove(bm, bookmarkId, parentId, payload.index),
                             ApplyAck("applied", UNDEFINED, UNDEFINED))
       [] OTHER -> applyRejected(bm, "unsupported_action")

(***************************************************************************)
(* syncFromPayload(payload): the snapshot apply.                           *)
(*                                                                         *)
(* One step is taken per store mutation; the store reads that lead to a    *)
(* mutation (getNode, getChildren, getTree) are part of its step.  The     *)
(* folders of a payload are flat (no folder.children).                     *)
(***************************************************************************)
\* what a step of the apply does to the store: ok is FALSE when a call threw
StoreStep(ok, bm, events, created) ==
  [ok |-> ok, bookmarks |-> bm, events |-> events, created |-> created]

\* the folders among the children of parentId titled name, first first
childFoldersNamed(bm, parentId, name) ==
  SelectSeq(bm.children[parentId],
            LAMBDA c : c \in DOMAIN bm.children /\ bm.title[c] = name)

\* rootId is "" when a call threw
ensureRootFolder(bm, st, name, newId) ==
  LET oldId == Field(st.managedFolderIds, "__root__", UNDEFINED)
      bar == "1"
  IN IF Truthy(oldId) /\ oldId \in DOMAIN bm.children
     THEN IF bm.title[oldId] # name
          THEN [rootId |-> oldId,
                step |-> StoreStep(TRUE, bmUpdate(bm, oldId, name).bookmarks,
                                   <<bmUpdate(bm, oldId, name).event>>, 0)]
          ELSE [rootId |-> oldId, step |-> StoreStep(TRUE, bm, <<>>, 0)]
     ELSE IF bar \notin DOMAIN bm.children
     THEN [rootId |-> "", step |-> StoreStep(FALSE, bm, <<>>, 0)]
     ELSE IF childFoldersNamed(bm, bar, name) # <<>>
     THEN [rootId |-> childFoldersNamed(bm, bar, name)[1],
           step |-> StoreStep(TRUE, bm, <<>>, 0)]
     ELSE [rootId |-> newId,
           step |-> StoreStep(TRUE, bmCreate(bm, newId, bar, name, TRUE).bookmarks,
                              <<bmCreate(bm, newId, bar, name, TRUE).event>>, 1)]

\* reorderChildren(parentId, desiredOrderIds) from the k-th id on
RECURSIVE reorderChildrenFrom(_, _, _, _, _)
reorderChildrenFrom(bm, parentId, desiredOrderIds, k, events) ==
  IF k > Len(desiredOrderIds) THEN StoreStep(TRUE, bm, events, 0)
  ELSE IF parentId \notin DOMAIN bm.children THEN StoreStep(FALSE, bm, events, 0)
  ELSE LET children == bm.children[parentId]
           id == desiredOrderIds[k]
           present == \E p \in 1..Len(children) : children[p] = id
       IN IF ~present \/ PositionIn(children, id) - 1 = k - 1
          THEN reorderChildrenFrom(bm, parentId, desiredOrderIds, k + 1, events)
          ELSE LET moved == bmMove(bm, id, parentId, <<k - 1>>)
               IN IF ~moved.ok THEN StoreStep(FALSE, bm, events, 0)
                  ELSE reorderChildrenFrom(moved.bookmarks, parentId, desiredOrderIds,
                                           k + 1, Append(events, moved.event))

reorderChildren(bm, parentId, desiredOrderIds) ==
  reorderChildrenFrom(bm, parentId, desiredOrderIds, 1, <<>>)

\* the values of an object as a sequence
RECURSIVE ValuesOf(_)
ValuesOf(object) ==
  IF DOMAIN object = {} THEN <<>>
  ELSE LET k == CHOOSE key \in DOMAIN object : TRUE
       IN <<object[k]>> \o ValuesOf([key \in DOMAIN object \ {k} |-> object[key]])

\* clearManagedTree, the applyFolder calls, the root reorder and the save,
\* as the list of what is still to do
syncPlan(st, desired) ==
  [k \in 1..Len(ValuesOf(st.managedBookmarkIds)) |->
     [op |-> "removeBookmark", id |-> ValuesOf(st.managedBookmarkIds)[k]]]
  \o LET folderIds ==
           ValuesOf([key \in DOMAIN st.managedFolderIds \ {"__root__"} |->
                       st.managedFolderIds[key]])
     IN [k \in 1..Len(folderIds) |-> [op |-> "removeFolder", id |-> folderIds[k]]]
  \o [k \in 1..Len(desired) |-> [op |-> "folder", folder |-> desired[k]]]
  \o <<[op |-> "reorderRoot"], [op |-> "save"]>>

\* const nextState = { ... }: the record has no wsDedupe property
syncNextState(st, rootId) ==
  [managedFolderIds |-> ("__root__" :> rootId),
   managedBookmarkIds |-> <<>>,
   reverseQueue |-> st.reverseQueue,
   bookmarkIdToManagedKey |-> <<>>,
   suppressionState |-> st.suppressionState,
   importInProgress |-> st.importInProgress]

\* the first entry of task.plan carried out: the store step and the task after it
syncStep(bm, task, newId) ==
  LET todo == Head(task.plan)
      rest == Tail(task.plan)
      nothing == [step |-> StoreStep(TRUE, bm, <<>>, 0),
                  task |-> [task EXCEPT !.plan = rest]]
      threw == [step |-> StoreStep(FALSE, bm, <<>>, 0), task |-> task]
      did(result) == IF result.ok
                     THEN [step |-> StoreStep(TRUE, result.bookmarks, <<result.event>>, 0),
                           task |-> [task EXCEPT !.plan = rest]]
                     ELSE threw
  IN CASE todo.op = "removeBookmark" ->
            IF todo.id \in DOMAIN bm.title /\ todo.id \notin DOMAIN bm.children
            THEN did(bmRemove(bm, todo.id, FALSE)) ELSE nothing
       [] todo.op = "removeFolder" ->
            IF todo.id # task.rootId /\ todo.id \in DOMAIN bm.children
            THEN did(bmRemove(bm, todo.id, TRUE)) ELSE nothing
       [] todo.op = "folder" ->
            IF task.rootId \notin DOMAIN bm.children THEN threw
            ELSE LET found == childFoldersNamed(bm, task.rootId, todo.folder.name)
                     folderId == IF found # <<>> THEN found[1] ELSE newId
                     links == todo.folder.links
                 IN [step |->
                       IF found # <<>> THEN StoreStep(TRUE, bm, <<>>, 0)
                       ELSE StoreStep(TRUE,
                              bmCreate(bm, newId, task.rootId, todo.folder.name, TRUE).bookmarks,
                              <<bmCreate(bm, newId, task.rootId, todo.folder.name, TRUE).event>>,
                              1),
                     task |->
                       [task EXCEPT
                          !.next.managedFolderIds = (todo.folder.key :> folderId) @@ @,
                          !.ordered = <<>>,
                          !.rootOrder = Append(@, folderId),
                          !.plan = [k \in 1..Len(links) |->
                                      [op |-> "link", parentId |-> folderId,
                                       link |-> links[k]]]
                                   \o <<[op |-> "reorderFolder", id |-> folderId]>>
                                   \o rest]]
       [] todo.op = "link" ->
            LET made == bmCreate(bm, newId, todo.parentId, todo.link.title, FALSE)
            IN IF ~made.ok THEN threw
               ELSE [step |-> StoreStep(TRUE, made.bookmarks, <<made.event>>, 1),
                     task |->
                       [task EXCEPT
                          !.next.managedBookmarkIds = (todo.link.key :> newId) @@ @,
                          !.next.bookmarkIdToManagedKey = (newId :> todo.link.key) @@ @,
                          !.ordered = Append(@, newId),
                          !.plan = rest]]
       [] todo.op = "reorderFolder" ->
            LET moved == reorderChildren(bm, todo.id, task.ordered)
            IN IF moved.ok THEN [step |-> moved, task |-> [task EXCEPT !.plan = rest]]
               ELSE threw
       [] todo.op = "reorderRoot" ->
            LET moved == reorderChildren(bm, task.rootId, task.rootOrder)
            IN IF moved.ok THEN [step |-> moved, task |-> [task EXCEPT !.plan = rest]]
               ELSE threw

\* the events of a store step, in flight to the listeners
FiredAll(events, origin) == [k \in 1..Len(events) |-> Fired(events[k], origin)]

(***************************************************************************)
(* handleWebSocketMessage, the action branch, with flushWsInboundQueue.    *)
(*                                                                         *)
(* A message task is [kind, pc, env, st, cur, ack, plan, next, rootId,     *)
(* ordered, rootOrder, failed]; pc says at which await it is suspended:    *)
(*   loaded      `await getState()` of the dedupe                          *)
(*   saved       `await chrome.storage.local.set` after an accepted dedupe *)
(*   queued      `await patchWebSocketSession` after wsInboundQueue.push   *)
(*   applied     `await applyInboundActionEvent(envelope)`                 *)
(*   sync_loaded `await getState()` at the head of syncFromPayload         *)
(*   sync_root   `await chrome.storage.local.set` of the apply epoch       *)
(*   sync_run    a store call of the apply                                 *)
(*   sync_saved  `await chrome.storage.local.set(nextState)`, or a store   *)
(*               call that threw (failed)                                  *)
(*   sync_reset  `await getState()` of the finally block                   *)
(*   synced      `await chrome.storage.local.set` of the finally block     *)
(***************************************************************************)
DeliveryRecord(envelope, t) ==
  [type |-> envelope.type, clientId |-> envelope.clientId,
   key |-> IF Truthy(readBridgeString(envelope.idempotencyKey))
           THEN envelope.idempotencyKey ELSE envelope.eventId,
   at |-> t]

AppliedRecord(envelope) ==
  [clientId |-> envelope.clientId, key |-> envelope.idempotencyKey, op |-> envelope.op]

\* wsClient.onmessage with an action envelope: runs to `await getState()`
Deliver(envelope) ==
  /\ Len(delivered) < MaxDeliveries
  /\ wsReady = "OPEN"
  /\ HasFreeSlot
  /\ delivered' = Append(delivered, DeliveryRecord(envelope, now))
  /\ tasks' = [tasks EXCEPT ![FreeSlot] =
                 [kind |-> "message", pc |-> "loaded", env |-> envelope,
                  st |-> migrateState(storage, now), cur |-> envelope,
                  ack |-> ApplyAck("", UNDEFINED, UNDEFINED), plan |-> <<>>,
                  next |-> <<>>, rootId |-> "", ordered |-> <<>>,
                  rootOrder |-> <<>>, failed |-> FALSE]]
  /\ UNCHANGED <<storage, now, bookmarks, pendingEvents, uuids, nodeCount, syslog,
                 reverseFlushTimer, reverseFlushInFlight, wsReady, wsInboundQueue,
                 wsOutboundQueue, wire, applied, echoed, ticks, edits>>
  /\ WorkerFrame

\* recordAndCheckDedupe, rsLog("ws_action_skip") on a duplicate, and the save
MessageDedupes(i) ==
  /\ tasks[i].kind = "message"
  /\ tasks[i].pc = "loaded"
  /\ LET envelope == tasks[i].env
         inboundDedupeKey == IF Truthy(readBridgeString(envelope.idempotencyKey))
                             THEN envelope.idempotencyKey ELSE envelope.eventId
         checked == recordAndCheckDedupe(tasks[i].st, envelope.clientId,
                                         inboundDedupeKey, now)
     IN /\ storage' = checked.state
        /\ IF checked.accepted
           THEN /\ tasks' = [tasks EXCEPT ![i] =
                               [@ EXCEPT !.pc = "saved", !.st = checked.state]]
                /\ UNCHANGED syslog
           ELSE /\ tasks' = [tasks EXCEPT ![i] = Idle]
                /\ syslog' = syslog \cup
                     {WorkerLog("ws_action_skip", "duplicate_inbound_event",
                                envelope.eventId, UNDEFINED, UNDEFINED)}
  /\ UNCHANGED <<now, bookmarks, pendingEvents, uuids, nodeCount, reverseFlushTimer,
                 reverseFlushInFlight, wsReady, wsInboundQueue, wsOutboundQueue,
                 wire, applied, echoed, ticks, edits, delivered>>
  /\ WorkerFrame

\* wsInboundQueue.push(envelope); await patchWebSocketSession(...)
MessageEnqueues(i) ==
  /\ tasks[i].kind = "message"
  /\ tasks[i].pc = "saved"
  /\ wsInboundQueue' = Append(wsInboundQueue, tasks[i].env)
  /\ tasks' = [tasks EXCEPT ![i] = [@ EXCEPT !.pc = "queued"]]
  /\ UNCHANGED <<storage, now, bookmarks, pendingEvents, uuids, nodeCount, syslog,
                 reverseFlushTimer, reverseFlushInFlight, wsReady, wsOutboundQueue,
                 wire, applied, echoed, ticks, edits, delivered>>
  /\ WorkerFrame

\* flushWsInboundQueue: the ack of the envelope just applied (if any) is
\* sent, then the loop shifts the next envelope and starts its apply, or
\* finds the queue empty and returns
MessageDrains(i) ==
  /\ tasks[i].kind = "message"
  /\ tasks[i].pc \in {"queued", "applied", "synced"}
  /\ sendWsEnvelopes(IF tasks[i].pc = "queued" THEN <<>>
                     ELSE <<InboundAckEnvelope(tasks[i].cur, tasks[i].ack)>>)
  /\ IF wsInboundQueue = <<>>
     THEN /\ tasks' = [tasks EXCEPT ![i] = Idle]
          /\ UNCHANGED <<wsInboundQueue, bookmarks, pendingEvents, applied, nodeCount>>
     ELSE LET envelope == Head(wsInboundQueue)
              result == applyInboundActionEvent(bookmarks, envelope,
                                                NewNodeId(nodeCount + 1))
          IN /\ wsInboundQueue' = Tail(wsInboundQueue)
             /\ IF envelope.op = "snapshot"
                THEN /\ tasks' = [tasks EXCEPT ![i] =
                                    [@ EXCEPT !.pc = "sync_loaded", !.cur = envelope,
                                              !.st = migrateState(storage, now),
                                              !.failed = FALSE]]
                     /\ applied' = Append(applied, AppliedRecord(envelope))
                     /\ UNCHANGED <<bookmarks, pendingEvents, nodeCount>>
                ELSE /\ tasks' = [tasks EXCEPT ![i] =
                                    [@ EXCEPT !.pc = "applied", !.cur = envelope,
                                              !.ack = result.ack]]
                     /\ bookmarks' = result.bookmarks
                     /\ pendingEvents' =
                          IF result.mutated
                          THEN Append(pendingEvents, Fired(result.event, "inbound"))
                          ELSE pendingEvents
                     /\ applied' = IF result.mutated
                                   THEN Append(applied, AppliedRecord(envelope))
                                   ELSE applied
                     /\ nodeCount' = IF result.mutated /\ envelope.op = "bookmark_created"
                                     THEN nodeCount + 1 ELSE nodeCount
  /\ UNCHANGED <<storage, now, uuids, syslog, reverseFlushTimer, reverseFlushInFlight,
                 wsReady, echoed, ticks, edits, delivered>>
  /\ WorkerFrame

\* setApplyEpoch(state, true) and its save
SyncBegins(i) ==
  /\ tasks[i].kind = "message"
  /\ tasks[i].pc = "sync_loaded"
  /\ storage' = setApplyEpoch(tasks[i].st, TRUE, now)
  /\ tasks' = [tasks EXCEPT ![i] =
                 [@ EXCEPT !.pc = "sync_root", !.st = setApplyEpoch(@, TRUE, now)]]
  /\ UNCHANGED <<now, bookmarks, pendingEvents, uuids, nodeCount, syslog,
                 reverseFlushTimer, reverseFlushInFlight, wsReady, wsInboundQueue,
                 wsOutboundQueue, wire, applied, echoed, ticks, edits, delivered>>
  /\ WorkerFrame

\* a store step of the apply takes effect and its events are fired; a call
\* that threw leaves the try block
SyncStepTaken(i, step, taskAfter) ==
  /\ bookmarks' = step.bookmarks
  /\ pendingEvents' = pendingEvents \o FiredAll(step.events, "inbound")
  /\ nodeCount' = nodeCount + step.created
  /\ tasks' = [tasks EXCEPT ![i] =
                 IF step.ok THEN taskAfter
                 ELSE [@ EXCEPT !.pc = "sync_saved", !.failed = TRUE]]
  /\ UNCHANGED <<storage, now, uuids, syslog, reverseFlushTimer, reverseFlushInFlight,
                 wsReady, wsInboundQueue, wsOutboundQueue, wire, applied, echoed,
                 ticks, edits, delivered>>
  /\ WorkerFrame

\* ensureRootFolder(rootFolderName, state)
SyncEnsuresRoot(i) ==
  /\ tasks[i].kind = "message"
  /\ tasks[i].pc = "sync_root"
  /\ LET root == ensureRootFolder(bookmarks, tasks[i].st,
                                  tasks[i].cur.payload.rootFolderName,
                                  NewNodeId(nodeCount + 1))
     IN SyncStepTaken(i, root.step,
          [tasks[i] EXCEPT !.pc = "sync_run", !.rootId = root.rootId,
                           !.plan = syncPlan(tasks[i].st, tasks[i].cur.payload.desired),
                           !.next = syncNextState(tasks[i].st, root.rootId),
                           !.ordered = <<>>, !.rootOrder = <<>>])

\* clearManagedTree, applyFolder, reorderChildren: one store call
SyncRuns(i) ==
  /\ tasks[i].kind = "message"
  /\ tasks[i].pc = "sync_run"
  /\ Head(tasks[i].plan).op # "save"
  /\ LET done == syncStep(bookmarks, tasks[i], NewNodeId(nodeCount + 1))
     IN SyncStepTaken(i, done.step, done.task)

\* chrome.storage.local.set({ [STORAGE_KEY]: nextState })
SyncSaves(i) ==
  /\ tasks[i].kind = "message"
  /\ tasks[i].pc = "sync_run"
  /\ Head(tasks[i].plan).op = "save"
  /\ storage' = tasks[i].next
  /\ tasks' = [tasks EXCEPT ![i] = [@ EXCEPT !.pc = "sync_saved", !.plan = <<>>]]
  /\ UNCHANGED <<now, bookmarks, pendingEvents, uuids, nodeCount, syslog,
                 reverseFlushTimer, reverseFlushInFlight, wsReady, wsInboundQueue,
                 wsOutboundQueue, wire, applied, echoed, ticks, edits, delivered>>
  /\ WorkerFrame

\* finally: const resetState = await getState()
SyncReloads(i) ==
  /\ tasks[i].kind = "message"
  /\ tasks[i].pc = "sync_saved"
  /\ tasks' = [tasks EXCEPT ![i] =
                 [@ EXCEPT !.pc = "sync_reset", !.st = migrateState(storage, now)]]
  /\ UNCHANGED <<storage, now, bookmarks, pendingEvents, uuids, nodeCount, syslog,
                 reverseFlushTimer, reverseFlushInFlight, wsReady, wsInboundQueue,
                 wsOutboundQueue, wire, applied, echoed, ticks, edits, delivered>>
  /\ WorkerFrame

\* finally: setApplyEpoch(resetState, false); setCooldown(resetState, 3000);
\* save.  After a store call that threw, the error leaves
\* flushWsInboundQueue and handleWebSocketMessage: no ack, no further drain.
SyncResets(i) ==
  /\ tasks[i].kind = "message"
  /\ tasks[i].pc = "sync_reset"
  /\ storage' = setCooldown(setApplyEpoch(tasks[i].st, FALSE, now), CooldownMs, now)
  /\ tasks' = [tasks EXCEPT ![i] =
                 IF tasks[i].failed THEN Idle
                 ELSE [@ EXCEPT !.pc = "synced",
                                !.ack = ApplyAck("applied", UNDEFINED, UNDEFINED)]]
  /\ UNCHANGED <<now, bookmarks, pendingEvents, uuids, nodeCount, syslog,
                 reverseFlushTimer, reverseFlushInFlight, wsReady, wsInboundQueue,
                 wsOutboundQueue, wire, applied, echoed, ticks, edits, delivered>>
  /\ WorkerFrame

(***************************************************************************)
(* The inbound path: the bridge delivers action envelopes over the open    *)
(* socket; the store fires the events of what the applies change.  The     *)
(* clock advances between bursts of handler activity.                      *)
(***************************************************************************)
\* no handler is running and no bookmark event is in flight
Quiescent == pendingEvents = <<>> /\ \A i \in Slots : tasks[i] = Idle

\* What the bridge sends next.  It delivers at least once: after its first
\* message it sends a snapshot or sends an earlier message again.  A message
\* sent again may arrive while handlers are running; a snapshot, and the
\* first message, arrive at a quiet worker.
Deliverable ==
  {envelope \in InboundEnvelopes :
     LET again == \E k \in DOMAIN delivered : delivered[k].key = envelope.idempotencyKey
     IN IF Quiescent
        THEN delivered = <<>> \/ envelope.op = "snapshot" \/ again
        ELSE again /\ envelope.op # "snapshot"}

InitInbound ==
  /\ UnitIdle
  /\ WorkerStart({SeededState([applyEpoch |-> FALSE, epochStartedAt |-> <<>>,
                               cooldownUntil |-> <<>>], FALSE)},
                 SeededBookmarks, "OPEN")

NextInbound ==
  \/ \E envelope \in Deliverable : Deliver(envelope)
  \/ \E i \in Slots : MessageDedupes(i)
  \/ \E i \in Slots : MessageEnqueues(i)
  \/ \E i \in Slots : MessageDrains(i)
  \/ \E i \in Slots : SyncBegins(i)
  \/ \E i \in Slots : SyncEnsuresRoot(i)
  \/ \E i \in Slots : SyncRuns(i)
  \/ \E i \in Slots : SyncSaves(i)
  \/ \E i \in Slots : SyncReloads(i)
  \/ \E i \in Slots : SyncResets(i)
  \/ DispatchBookmarkEvent
  \/ \E i \in Slots : CaptureSkips(i)
  \/ \E i \in Slots : CaptureLooksUp(i)
  \/ \E i \in Slots : CaptureEnqueues(i)
  \/ \E delta \in {CooldownMs, TtlMs} : Quiescent /\ Tick(delta)

SpecInbound == InitInbound /\ [][NextInbound]_vars

DeliveriesOf(clientId, key) ==
  {k \in DOMAIN delivered :
     /\ delivered[k].type = "action"
     /\ delivered[k].clientId = clientId
     /\ delivered[k].key = key}

AppliesOf(clientId, key) ==
  {k \in DOMAIN applied : applied[k].clientId = clientId /\ applied[k].key = key}

\* C1: an action envelope whose deliveries (same clientId, same
\* idempotencyKey) all fall within 5 minutes of each other is applied to the
\* bookmark store at most once, whatever the interleaving of the message
\* handlers and whether or not a snapshot apply ran in between.
C1_DuplicateDeliveryAppliedOnce ==
  \A envelope \in InboundEnvelopes :
    (\A a, b \in DeliveriesOf(envelope.clientId, envelope.idempotencyKey) :
       delivered[b].at - delivered[a].at < TtlMs)
    => Cardinality(AppliesOf(envelope.clientId, envelope.idempotencyKey)) <= 1

\* C3: no reverse queue item is captured from a bookmark event that the
\* store fired because of an inbound apply, whatever the op of the envelope
\* (bookmark_created, bookmark_updated, bookmark_deleted, folder_renamed,
\* bookmark_moved, snapshot).
C3_InboundApplyNeverEchoes == echoed = {}

(***************************************************************************)
(* The reverse flush over the WebSocket: runReverseFlush,                  *)
(* flushReverseQueueOverWebSocket, the socket's open handler and the ack   *)
(* branch of handleWebSocketMessage.                                       *)
(*                                                                         *)
(* A flush task is [kind, pc, st]:                                         *)
(*   loaded    `await getState()`; st is what it read                      *)
(*   connected `await ensureWebSocketConnection("reverse_flush")`          *)
(*   sent      `await patchWebSocketSession` after the sends               *)
(* An open task is [kind, pc]: patching, then flushed.                     *)
(* An ack task is [kind, pc, env, st], suspended at `await getState()`.    *)
(***************************************************************************)
\* DEFAULT_BRIDGE_PROFILE.clientId, the activeClientId of the default config
ActiveClientId == "project2chrome"

\* the envelope flushReverseQueueOverWebSocket builds for a queued event
OutboundAction(event, clientId) ==
  [type |-> "action", eventId |-> event.eventId, clientId |-> clientId,
   idempotencyKey |-> event.batchId, op |-> event.type,
   target |-> IF Truthy(event.managedKey) THEN event.managedKey ELSE event.bookmarkId,
   payload |-> [bookmarkId |-> event.bookmarkId, managedKey |-> event.managedKey,
                parentId |-> event.parentId, moveIndex |-> event.moveIndex]]

\* every queued item is sent, without coalescing
flushReverseQueueOverWebSocket_EveryItem(st, clientId) ==
  [k \in 1..Len(st.reverseQueue) |-> OutboundAction(st.reverseQueue[k].event, clientId)]

\* the envelopes it hands to sendWsEnvelope, in order
flushReverseQueueOverWebSocket(st, clientId) ==
  LET batch == coalesceQueue(st.reverseQueue)
  IN [k \in 1..Len(batch) |-> OutboundAction(batch[k].event, clientId)]

\* runReverseFlush without the test of reverseFlushInFlight
runReverseFlush_NoGuard ==
  /\ reverseFlushInFlight' = TRUE
  /\ tasks' = [tasks EXCEPT ![FreeSlot] =
                 [kind |-> "flush", pc |-> "loaded",
                  st |-> migrateState(storage, now)]]

\* runReverseFlush up to `await getState()`: the in-flight guard
runReverseFlush ==
  IF reverseFlushInFlight
  THEN UNCHANGED <<tasks, reverseFlushInFlight>>
  ELSE /\ reverseFlushInFlight' = TRUE
       /\ tasks' = [tasks EXCEPT ![FreeSlot] =
                      [kind |-> "flush", pc |-> "loaded",
                       st |-> migrateState(storage, now)]]

\* the k-th envelope on the wire is an action envelope
IsSend(k) == wire[k].type = "action"

\* chrome.alarms.onAlarm with alarm.name = "reverseFlush"
AlarmFires ==
  /\ Cardinality({k \in DOMAIN wire : IsSend(k)}) < MaxSends
  /\ HasFreeSlot
  /\ runReverseFlush
  /\ UNCHANGED <<storage, now, bookmarks, pendingEvents, uuids, nodeCount, syslog,
                 reverseFlushTimer, wsReady, wsInboundQueue, wsOutboundQueue, wire,
                 applied, echoed, ticks, edits, delivered>>
  /\ WorkerFrame

\* the setTimeout callback of scheduleReverseFlushSoon
TimerFires ==
  /\ reverseFlushTimer
  /\ HasFreeSlot
  /\ reverseFlushTimer' = FALSE
  /\ runReverseFlush
  /\ UNCHANGED <<storage, now, bookmarks, pendingEvents, uuids, nodeCount, syslog,
                 wsReady, wsInboundQueue, wsOutboundQueue, wire, applied, echoed,
                 ticks, edits, delivered>>
  /\ WorkerFrame

\* getBridgeConfig and ensureWebSocketConnection: a socket is constructed
\* when there is none
FlushConnects(i) ==
  /\ tasks[i].kind = "flush"
  /\ tasks[i].pc = "loaded"
  /\ wsReady' = IF wsReady = "NONE" THEN "CONNECTING" ELSE wsReady
  /\ syslog' = IF wsReady = "NONE"
               THEN syslog \cup {WorkerLog("ws_connecting", "reverse_flush",
                                           UNDEFINED, UNDEFINED, UNDEFINED)}
               ELSE syslog
  /\ tasks' = [tasks EXCEPT ![i] = [@ EXCEPT !.pc = "connected"]]
  /\ UNCHANGED <<storage, now, bookmarks, pendingEvents, uuids, nodeCount,
                 reverseFlushTimer, reverseFlushInFlight, wsInboundQueue,
                 wsOutboundQueue, wire, applied, echoed, ticks, edits, delivered>>
  /\ WorkerFrame

\* the branch on wsClient.readyState: flushReverseQueueOverWebSocket with the
\* state read at the start, or rsLog("ws_flush_skip"); nothing is written to
\* storage on either branch
FlushSends(i) ==
  /\ tasks[i].kind = "flush"
  /\ tasks[i].pc = "connected"
  /\ LET envelopes == flushReverseQueueOverWebSocket(tasks[i].st, ActiveClientId)
     IN IF wsReady = "OPEN"
        THEN /\ sendWsEnvelopes(envelopes)
             /\ UNCHANGED syslog
             /\ IF envelopes = <<>>
                THEN /\ tasks' = [tasks EXCEPT ![i] = Idle]
                     /\ reverseFlushInFlight' = FALSE
                ELSE /\ tasks' = [tasks EXCEPT ![i] = [@ EXCEPT !.pc = "sent"]]
                     /\ UNCHANGED reverseFlushInFlight
        ELSE /\ syslog' = syslog \cup
                  {WorkerLog("ws_flush_skip", "socket_not_connected", UNDEFINED,
                             UNDEFINED, UNDEFINED)}
             /\ tasks' = [tasks EXCEPT ![i] = Idle]
             /\ reverseFlushInFlight' = FALSE
             /\ UNCHANGED <<wire, wsOutboundQueue>>
  /\ UNCHANGED <<storage, now, bookmarks, pendingEvents, uuids, nodeCount,
                 reverseFlushTimer, wsReady, wsInboundQueue, applied, echoed, ticks,
                 edits, delivered>>
  /\ WorkerFrame

\* finally { reverseFlushInFlight = false }
FlushReturns(i) ==
  /\ tasks[i].kind = "flush"
  /\ tasks[i].pc = "sent"
  /\ tasks' = [tasks EXCEPT ![i] = Idle]
  /\ reverseFlushInFlight' = FALSE
  /\ UNCHANGED <<storage, now, bookmarks, pendingEvents, uuids, nodeCount, syslog,
                 reverseFlushTimer, wsReady, wsInboundQueue, wsOutboundQueue, wire,
                 applied, echoed, ticks, edits, delivered>>
  /\ WorkerFrame

\* an awaited promise of the flush rejects (chrome.storage fails under
\* getState, getBridgeConfig or patchWebSocketSession): the finally block
\* runs and the rejection leaves runReverseFlush
FlushThrows(i) ==
  /\ tasks[i].kind = "flush"
  /\ tasks' = [tasks EXCEPT ![i] = Idle]
  /\ reverseFlushInFlight' = FALSE
  /\ UNCHANGED <<storage, now, bookmarks, pendingEvents, uuids, nodeCount, syslog,
                 reverseFlushTimer, wsReady, wsInboundQueue, wsOutboundQueue, wire,
                 applied, echoed, ticks, edits, delivered>>
  /\ WorkerFrame

\* the socket connects: wsClient.onopen runs handleWebSocketOpen to its
\* `await patchWebSocketSession`
SocketOpens ==
  /\ wsReady = "CONNECTING"
  /\ HasFreeSlot
  /\ wsReady' = "OPEN"
  /\ tasks' = [tasks EXCEPT ![FreeSlot] = [kind |-> "open", pc |-> "patching"]]
  /\ UNCHANGED <<storage, now, bookmarks, pendingEvents, uuids, nodeCount, syslog,
                 reverseFlushTimer, reverseFlushInFlight, wsInboundQueue,
                 wsOutboundQueue, wire, applied, echoed, ticks, edits, delivered>>
  /\ WorkerFrame

\* the handshake, then flushWsOutboundQueue
OpenHandshakes(i) ==
  /\ tasks[i].kind = "open"
  /\ tasks[i].pc = "patching"
  /\ wire' = wire \o <<[type |-> "handshake", clientId |-> ActiveClientId]>>
                  \o wsOutboundQueue
  /\ wsOutboundQueue' = <<>>
  /\ tasks' = [tasks EXCEPT ![i] = [@ EXCEPT !.pc = "flushed"]]
  /\ UNCHANGED <<storage, now, bookmarks, pendingEvents, uuids, nodeCount, syslog,
                 reverseFlushTimer, reverseFlushInFlight, wsReady, wsInboundQueue,
                 applied, echoed, ticks, edits, delivered>>
  /\ WorkerFrame

\* rsLog("ws_connected")
OpenReturns(i) ==
  /\ tasks[i].kind = "open"
  /\ tasks[i].pc = "flushed"
  /\ syslog' = syslog \cup
       {WorkerLog("ws_connected", UNDEFINED, UNDEFINED, UNDEFINED, UNDEFINED)}
  /\ tasks' = [tasks EXCEPT ![i] = Idle]
  /\ UNCHANGED <<storage, now, bookmarks, pendingEvents, uuids, nodeCount,
                 reverseFlushTimer, reverseFlushInFlight, wsReady, wsInboundQueue,
                 wsOutboundQueue, wire, applied, echoed, ticks, edits, delivered>>
  /\ WorkerFrame

(***************************************************************************)
(* Acks of the bridge.                                                     *)
(***************************************************************************)
\* what the bridge answers: applied, or a legacy status this build does not
\* know
AckChoices ==
  {[status |-> "applied", legacyStatus |-> UNDEFINED],
   [status |-> "rejected", legacyStatus |-> "some_future_status"]}

SendsOf(eventId) == {k \in DOMAIN wire : IsSend(k) /\ wire[k].eventId = eventId}

AcksOf(eventId) ==
  {d \in DOMAIN delivered : delivered[d].type = "ack" /\ delivered[d].key = eventId}

OutboundAck(sent, choice) ==
  [type |-> "ack", eventId |-> "ack:" \o sent.eventId, clientId |-> sent.clientId,
   correlationId |-> sent.eventId, idempotencyKey |-> sent.idempotencyKey,
   status |-> choice.status, legacyStatus |-> choice.legacyStatus,
   reason |-> UNDEFINED, resolvedKey |-> UNDEFINED]

AckDeliveryRecord(envelope, t) ==
  [type |-> "ack", clientId |-> envelope.clientId, key |-> envelope.correlationId,
   at |-> t,
   status |-> mapWsAckToLegacyStatus(envelope.status, envelope.legacyStatus)]

\* wsClient.onmessage with an ack envelope: runs to `await getState()`.  The
\* bridge answers an event once, when it first receives it.
DeliverAck(k, choice) ==
  /\ Len(delivered) < MaxDeliveries
  /\ wsReady = "OPEN"
  /\ HasFreeSlot
  /\ IsSend(k)
  /\ AcksOf(wire[k].eventId) = {}
  /\ \A j \in SendsOf(wire[k].eventId) : k <= j
  /\ delivered' = Append(delivered,
                         AckDeliveryRecord(OutboundAck(wire[k], choice), now))
  /\ tasks' = [tasks EXCEPT ![FreeSlot] =
                 [kind |-> "ack", pc |-> "loaded", env |-> OutboundAck(wire[k], choice),
                  st |-> migrateState(storage, now)]]
  /\ UNCHANGED <<storage, now, bookmarks, pendingEvents, uuids, nodeCount, syslog,
                 reverseFlushTimer, reverseFlushInFlight, wsReady, wsInboundQueue,
                 wsOutboundQueue, wire, applied, echoed, ticks, edits>>
  /\ WorkerFrame

\* processReverseAckResponse with the one result of the envelope, and the save
AckProcesses(i) ==
  /\ tasks[i].kind = "ack"
  /\ tasks[i].pc = "loaded"
  /\ LET envelope == tasks[i].env
         st == tasks[i].st
         results == <<AckResult(IF Truthy(readBridgeString(envelope.correlationId))
                                THEN envelope.correlationId ELSE envelope.eventId,
                                mapWsAckToLegacyStatus(envelope.status,
                                                       envelope.legacyStatus),
                                envelope.resolvedKey)>>
         after == processReverseAckResponse(
                    [reverseQueue |-> st.reverseQueue,
                     bookmarkIdToManagedKey |-> st.bookmarkIdToManagedKey], results)
         logs == processReverseAckResponseLogs(results)
     IN /\ storage' = [st EXCEPT !.reverseQueue = after.reverseQueue,
                                 !.bookmarkIdToManagedKey = after.bookmarkIdToManagedKey]
        /\ syslog' = syslog \cup {logs[n] : n \in DOMAIN logs}
  /\ tasks' = [tasks EXCEPT ![i] = Idle]
  /\ UNCHANGED <<now, bookmarks, pendingEvents, uuids, nodeCount, reverseFlushTimer,
                 reverseFlushInFlight, wsReady, wsInboundQueue, wsOutboundQueue, wire,
                 applied, echoed, ticks, edits, delivered>>
  /\ WorkerFrame

(***************************************************************************)
(* The outbound path: the user edits managed nodes, the capture handlers   *)
(* queue the events, the alarm and the timer flush the queue over the      *)
(* socket and the bridge acks what it received.                            *)
(***************************************************************************)
InitOutbound ==
  /\ UnitIdle
  /\ \E socket \in {"NONE", "OPEN"} :
       WorkerStart({SeededState([applyEpoch |-> FALSE, epochStartedAt |-> <<>>,
                                 cooldownUntil |-> <<>>], FALSE)},
                   SeededBookmarks, socket)

NextOutbound ==
  \/ UserChanges("b1")
  \/ DispatchBookmarkEvent
  \/ \E i \in Slots : CaptureEnqueues(i)
  \/ AlarmFires
  \/ TimerFires
  \/ \E i \in Slots : FlushConnects(i)
  \/ \E i \in Slots : FlushSends(i)
  \/ \E i \in Slots : FlushReturns(i)
  \/ \E i \in Slots : FlushThrows(i)
  \/ SocketOpens
  \/ \E i \in Slots : OpenHandshakes(i)
  \/ \E i \in Slots : OpenReturns(i)
  \/ \E k \in DOMAIN wire : \E choice \in AckChoices : DeliverAck(k, choice)
  \/ \E i \in Slots : AckProcesses(i)

SpecOutbound == InitOutbound /\ [][NextOutbound]_vars

\* the event with id a was queued before the event with id b
EnqueuedBefore(a, b) ==
  \E m, n \in 1..uuids : m < n /\ a = NewEventId(m) /\ b = NewEventId(n)

\* a terminal ack has arrived for an event of the same bookmark that was
\* queued after the event of envelope
Superseded(envelope) ==
  \E d \in DOMAIN delivered : \E j \in DOMAIN wire :
    /\ delivered[d].type = "ack"
    /\ ackDequeues(delivered[d].status)
    /\ IsSend(j)
    /\ wire[j].eventId = delivered[d].key
    /\ wire[j].payload.bookmarkId = envelope.payload.bookmarkId
    /\ EnqueuedBefore(envelope.eventId, wire[j].eventId)

\* C8: once the latest event of a bookmark has been sent and a terminal ack
\* for it has arrived, no step puts on the socket an event of the same
\* bookmark that was queued before it.
C8_AckedEventSupersedesOlder ==
  [][\A k \in DOMAIN wire' \ DOMAIN wire :
       wire'[k].type = "action" => ~Superseded(wire'[k])]_vars

\* C9: an event for which no ack has arrived is transmitted at most 3 times
\* (the retry count at which an item is quarantined), however often the
\* flush alarm fires.
C9_AtMostThreeSendsUnacked ==
  \A k \in DOMAIN wire :
    (IsSend(k) /\ AcksOf(wire[k].eventId) = {})
    => Cardinality(SendsOf(wire[k].eventId)) <= QuarantineAt

(***************************************************************************)
(* markFlushFailures called on a queue and a list of failed items.         *)
(***************************************************************************)
\* the retry counts a queued item can carry: 0 when enqueued, one more per
\* failed flush, and the item is dropped instead of reaching QuarantineAt
QueuedRetryCounts == 0..(QuarantineAt - 1)

\* the items of queue at the indices in picked, in queue order
ItemsAt(queue, picked) == Pick(queue, SelectSeq(Indices(queue), LAMBDA i : i \in picked))

InitMarkFailures ==
  UnitInit(DrawnQueues(MaxFailQueue, {"b1"}, QueuedRetryCounts), {NoKeys})

CallMarkFlushFailures ==
  /\ fn = "none"
  /\ \E picked \in SUBSET (1..Len(state.reverseQueue)) :
       LET failedItems == ItemsAt(state.reverseQueue, picked)
       IN /\ coalescedItems' = failedItems
          /\ state' = [state EXCEPT !.reverseQueue =
                         markFlushFailures(state.reverseQueue, failedItems)]
          /\ console' = markFlushFailuresLogs(state.reverseQueue, failedItems,
                                              "network_error")
  /\ fn' = "markFlushFailures"
  /\ unitPc' = "returned"
  /\ UNCHANGED <<state0, ackResponse, ackTrace, fetchOutcome, storageWrites>>
  /\ UnitFrame

NextMarkFailures == CallMarkFlushFailures

SpecMarkFailures == InitMarkFailures /\ [][NextMarkFailures]_vars

WsQueueItem(eventId, bookmarkId, managedKey, retryCount) ==
  [event |-> [batchId |-> "batch:" \o eventId, eventId |-> eventId,
              type |-> "bookmark_updated", bookmarkId |-> bookmarkId,
              managedKey |-> managedKey, parentId |-> UNDEFINED,
              moveIndex |-> <<>>, occurredAt |-> 0],
   retryCount |-> retryCount,
   enqueuedAt |-> toISOString(0)]

\* the queues of at most maxLen such items, event ids in enqueue order
DrawnWsQueues(maxLen) ==
  UNION {{[i \in 1..n |-> WsQueueItem(EventIdSeq[i], b[i], m[i], r[i])] :
            b \in [1..n -> BookmarkIds], m \in [1..n -> {"P|0", UNDEFINED}],
            r \in [1..n -> {0, QuarantineAt - 1}]} :
         n \in 0..maxLen}

InitFlushWs ==
  /\ UnitStart(DrawnWsQueues(MaxWsQueue), {NoKeys})
  /\ WorkerStart({<<>>}, [children |-> <<>>, title |-> <<>>], "OPEN")

CallFlushReverseQueueOverWebSocket ==
  /\ fn = "none"
  /\ fn' = "flushReverseQueueOverWebSocket"
  /\ unitPc' = "returned"
  /\ sendWsEnvelopes(flushReverseQueueOverWebSocket(state, ActiveClientId))
  /\ UNCHANGED <<state, state0, coalescedItems, ackResponse, ackTrace, fetchOutcome,
                 console, storageWrites>>
  /\ UNCHANGED <<storage, now, bookmarks, pendingEvents, tasks, uuids, nodeCount,
                 syslog, reverseFlushTimer, reverseFlushInFlight, wsReady,
                 wsInboundQueue, applied, echoed, ticks, edits, delivered>>
  /\ UNCHANGED sessionVars

NextFlushWs == CallFlushReverseQueueOverWebSocket

SpecFlushWs == InitFlushWs /\ [][NextFlushWs]_vars

FlushesRunning == {i \in Slots : tasks[i].kind = "flush"}

\* C13: at most one runReverseFlush body executes at a time, a call that
\* finds reverseFlushInFlight set starts none, and the guard is set exactly
\* while a body is running: it is cleared on every exit of the running
\* flush, a thrown one included, so a later timer or alarm flushes again.
C13_OneFlushAtATime ==
  /\ Cardinality(FlushesRunning) <= 1
  /\ reverseFlushInFlight <=> FlushesRunning # {}

\* a flush has sent an event and returned, and a later call has passed the
\* guard and is running
C13_Witness ==
  /\ reverseFlushInFlight
  /\ \E i \in Slots : tasks[i].kind = "flush" /\ tasks[i].pc = "loaded"
  /\ \E k \in DOMAIN wire : IsSend(k)

(***************************************************************************)
(* recordAndCheckDedupe called again and again on one state object while   *)
(* the clock moves.  delivered logs the calls: clientId, key, the time and *)
(* the value returned.                                                     *)
(***************************************************************************)
DedupeClientIds == {"c1", "outbound"}
DedupeKeys == {"k1", "k2"}

InitDedupe ==
  /\ UnitIdle
  /\ WorkerStart({SeededState([applyEpoch |-> FALSE, epochStartedAt |-> <<>>,
                               cooldownUntil |-> <<>>], FALSE)},
                 SeededBookmarks, "NONE")

CallRecordAndCheckDedupe(clientId, key) ==
  /\ Len(delivered) < MaxDeliveries
  /\ LET checked == recordAndCheckDedupe(storage, clientId, key, now)
     IN /\ storage' = checked.state
        /\ delivered' = Append(delivered,
                               [type |-> "call", clientId |-> clientId, key |-> key,
                                at |-> now, accepted |-> checked.accepted])
  /\ UNCHANGED <<now, bookmarks, pendingEvents, tasks, uuids, nodeCount, syslog,
                 reverseFlushTimer, reverseFlushInFlight, wsReady, wsInboundQueue,
                 wsOutboundQueue, wire, applied, echoed, ticks, edits>>
  /\ WorkerFrame

NextDedupe ==
  \/ \E clientId \in DedupeClientIds : \E key \in DedupeKeys :
       CallRecordAndCheckDedupe(clientId, key)
  \/ \E delta \in {1, TtlMs} : Tick(delta)

SpecDedupe == InitDedupe /\ [][NextDedupe]_vars

\* the earlier calls with the clientId and key of call n that returned true
AcceptedBefore(n) ==
  {m \in 1..(n - 1) : /\ delivered[m].clientId = delivered[n].clientId
                      /\ delivered[m].key = delivered[n].key
                      /\ delivered[m].accepted}

\* C14: recordAndCheckDedupe(state, c, k) returns true exactly once per
\* (c, k) within any 5-minute window: a call returns false exactly when an
\* earlier call with the same clientId and key returned true no more than
\* 5 minutes before it (so the false call did not refresh the timestamp, a
\* call under another clientId did not count, and a key recorded more than
\* 5 minutes ago is accepted again), and the timestamp stored for the key
\* is the time of the latest call that returned true.
C14_AcceptedOncePerWindow ==
  \A n \in DOMAIN delivered :
    /\ delivered[n].accepted <=>
         ~\E m \in AcceptedBefore(n) : delivered[n].at - delivered[m].at <= TtlMs
    /\ n = Len(delivered) =>
         LET bucket == storage.wsDedupe.byClient[delivered[n].clientId]
             stamps == {delivered[m].at :
                          m \in {a \in AcceptedBefore(n) \cup {n} : delivered[a].accepted}}
         IN /\ delivered[n].key \in DOMAIN bucket
            /\ bucket[delivered[n].key] \in stamps
            /\ \A at \in stamps : at <= bucket[delivered[n].key]

\* a key accepted at 0, refused at exactly 5 minutes and accepted again one
\* millisecond later
C14_Witness ==
  /\ Len(delivered) = 3
  /\ \A n \in 1..3 : delivered[n].clientId = "c1" /\ delivered[n].key = "k1"
  /\ delivered[1].at = 0 /\ delivered[1].accepted
  /\ delivered[2].at = TtlMs /\ ~delivered[2].accepted
  /\ delivered[3].at = TtlMs + 1 /\ delivered[3].accepted
  /\ storage.wsDedupe.byClient["c1"]["k1"] = TtlMs + 1

(***************************************************************************)
(* enqueueReverseEvent called again and again on one state object while    *)
(* the clock moves.  delivered logs the calls: the event and the time.     *)
(***************************************************************************)
\* the events handed to enqueueReverseEvent
EnqueuedEvents ==
  {WsQueueItem(eventId, "b1", "P|0", 0).event : eventId \in {"e1", "e2"}}

CallEnqueueReverseEvent(event) ==
  /\ Len(delivered) < MaxDeliveries
  /\ LET enqueued == enqueueReverseEvent(storage, event, now)
     IN /\ storage' = enqueued.state
        /\ syslog' = syslog \cup {enqueued.log}
        /\ reverseFlushTimer' = (reverseFlushTimer \/ enqueued.scheduled)
  /\ delivered' = Append(delivered, [type |-> "call", event |-> event, at |-> now])
  /\ UNCHANGED <<now, bookmarks, pendingEvents, tasks, uuids, nodeCount,
                 reverseFlushInFlight, wsReady, wsInboundQueue, wsOutboundQueue,
                 wire, applied, echoed, ticks, edits>>
  /\ WorkerFrame

NextEnqueue ==
  \/ \E event \in EnqueuedEvents : CallEnqueueReverseEvent(event)
  \/ \E delta \in {1, TtlMs} : Tick(delta)

SpecEnqueue == InitDedupe /\ [][NextEnqueue]_vars

\* the eventId is in the outbound bucket of st with a stamp no older than
\* 5 minutes at time t
SeenOutbound(st, eventId, t) ==
  LET bucket == Field(st.wsDedupe.byClient, "outbound", <<>>)
      key == "outbound:" \o eventId
  IN key \in DOMAIN bucket /\ t - bucket[key] <= TtlMs

\* C15: enqueueReverseEvent(state, event): when the eventId has not been
\* seen in the outbound dedupe bucket, exactly one item {event, retryCount 0,
\* enqueuedAt = now as an ISO string} is appended at the tail of
\* state.reverseQueue and the earlier items keep their order; when it was
\* seen within the 5-minute TTL the queue is unchanged and capture_skip is
\* logged.
C15_EnqueueAppendsOnceOrSkips ==
  [][Len(delivered') > Len(delivered) =>
       LET call == delivered'[Len(delivered')]
       IN IF SeenOutbound(storage, call.event.eventId, now)
          THEN /\ storage'.reverseQueue = storage.reverseQueue
               /\ WorkerLog("capture_skip", "duplicate_outbound_event",
                            call.event.eventId, UNDEFINED, call.event.type) \in syslog'
          ELSE storage'.reverseQueue =
                 Append(storage.reverseQueue,
                        [event |-> call.event, retryCount |-> 0,
                         enqueuedAt |-> toISOString(now)])]_vars

\* e1 was queued, offered again within the TTL and skipped, then e2 was
\* queued behind it
C15_Witness ==
  /\ Len(delivered) = 3
  /\ delivered[1].event.eventId = "e1"
  /\ delivered[2].event.eventId = "e1"
  /\ delivered[2].at = 1
  /\ delivered[3].event.eventId = "e2"
  /\ Len(storage.reverseQueue) = 2
  /\ storage.reverseQueue[1].event.eventId = "e1"
  /\ storage.reverseQueue[1].enqueuedAt = toISOString(0)
  /\ storage.reverseQueue[2].event.eventId = "e2"
  /\ storage.reverseQueue[2].retryCount = 0
  /\ storage.reverseQueue[2].enqueuedAt = toISOString(1)
  /\ WorkerLog("capture_skip", "duplicate_outbound_event", "e1", UNDEFINED,
               "bookmark_updated") \in syslog

(***************************************************************************)
(* The apply cycle of syncFromPayload in the inbound path.                 *)
(***************************************************************************)
\* this step is a bookmark-store call of the apply cycle running in slot i
CycleMutates(i) ==
  /\ tasks[i].kind = "message"
  /\ tasks[i].pc \in {"sync_root", "sync_run"}
  /\ tasks'[i] # tasks[i]
  /\ bookmarks' # bookmarks

\* this step is the last save of the apply cycle running in slot i
CycleExits(i) ==
  /\ tasks[i].kind = "message"
  /\ tasks[i].pc = "sync_reset"
  /\ tasks'[i] # tasks[i]

\* C16: in an apply cycle (syncFromPayload) the persisted state has
\* applyEpoch = true when the cycle makes a bookmark-store mutation, the
\* first one included, and when the cycle exits, whether it succeeded or
\* threw, the persisted state has applyEpoch = false, epochStartedAt = null
\* and cooldownUntil = now + 3000.
C16_EpochAroundApplyCycle ==
  [][\A i \in Slots :
       /\ CycleMutates(i) => storage.suppressionState.applyEpoch
       /\ CycleExits(i) =>
            storage'.suppressionState =
              [applyEpoch |-> FALSE, epochStartedAt |-> <<>>,
               cooldownUntil |-> <<now + CooldownMs>>]]_vars

(***************************************************************************)
(* setApplyEpoch called on a state object while the clock moves.           *)
(* delivered logs the calls: the argument and the suppression state found. *)
(***************************************************************************)
InitEpoch ==
  /\ UnitIdle
  /\ WorkerStart({SeededState(s, FALSE) : s \in SuppressionStates},
                 SeededBookmarks, "NONE")

CallSetApplyEpoch(active) ==
  /\ Len(delivered) < MaxDeliveries
  /\ storage' = setApplyEpoch(storage, active, now)
  /\ delivered' = Append(delivered, [type |-> "call", active |-> active,
                                     before |-> storage.suppressionState])
  /\ UNCHANGED <<now, bookmarks, pendingEvents, tasks, uuids, nodeCount, syslog,
                 reverseFlushTimer, reverseFlushInFlight, wsReady, wsInboundQueue,
                 wsOutboundQueue, wire, applied, echoed, ticks, edits>>
  /\ WorkerFrame

NextEpoch ==
  \/ \E active \in BOOLEAN : CallSetApplyEpoch(active)
  \/ Tick(CooldownMs)

SpecEpoch == InitEpoch /\ [][NextEpoch]_vars

\* C17: after setApplyEpoch(state, false), applyEpoch is false and both
\* epochStartedAt and cooldownUntil are null; setApplyEpoch(state, true)
\* sets applyEpoch = true, stamps epochStartedAt with the time of the call
\* and leaves cooldownUntil unchanged; either call leaves every other field
\* of the state unchanged.
C17_SetApplyEpoch ==
  [][Len(delivered') > Len(delivered) =>
       /\ \A field \in DOMAIN storage \ {"suppressionState"} :
            storage'[field] = storage[field]
       /\ DOMAIN storage' = DOMAIN storage
       /\ IF delivered'[Len(delivered')].active
          THEN /\ storage'.suppressionState.applyEpoch = TRUE
               /\ storage'.suppressionState.epochStartedAt = <<now>>
               /\ storage'.suppressionState.cooldownUntil =
                    storage.suppressionState.cooldownUntil
          ELSE /\ storage'.suppressionState.applyEpoch = FALSE
               /\ storage'.suppressionState.epochStartedAt = <<>>
               /\ storage'.suppressionState.cooldownUntil = <<>>]_vars

\* the epoch was set on a state in cooldown, which kept the cooldown, and
\* the next call cleared the epoch, its stamp and the cooldown
C17_Witness ==
  /\ Len(delivered) = 2
  /\ delivered[1].active
  /\ delivered[1].before.cooldownUntil = <<CooldownMs>>
  /\ ~delivered[2].active
  /\ delivered[2].before =
       [applyEpoch |-> TRUE, epochStartedAt |-> <<CooldownMs>>,
        cooldownUntil |-> <<CooldownMs>>]
  /\ storage.suppressionState =
       [applyEpoch |-> FALSE, epochStartedAt |-> <<>>, cooldownUntil |-> <<>>]

(***************************************************************************)
(* Capture during a bookmark import.                                       *)
(***************************************************************************)
\* the capture handler in slot i returns in this step, having loaded a
\* state with importInProgress set
CaptureReturnsDuringImport(i) ==
  /\ tasks[i].kind = "capture"
  /\ tasks[i].st.importInProgress
  /\ tasks'[i] = Idle

\* the import handler in slot i saves and returns in this step
ImportReturns(i) == tasks[i].kind = "import" /\ tasks'[i] = Idle

\* C18: while importInProgress is true in the state a capture handler
\* (created, changed, removed, moved) loaded, the handler appends nothing to
\* the reverse queue; importBegan and importEnded change only
\* importInProgress in the persisted state.
C18_ImportGatesCapture ==
  [][\A i \in Slots :
       /\ CaptureReturnsDuringImport(i) =>
            storage'.reverseQueue = storage.reverseQueue
       /\ ImportReturns(i) =>
            \A field \in DOMAIN storage' \ {"importInProgress"} :
              field \in DOMAIN storage /\ storage'[field] = storage[field]]_vars

(***************************************************************************)
(* Capture on nodes the extension does not manage.                         *)
(***************************************************************************)
\* getManagedBookmarkKeyById(state, id) !== null
isManagedBookmarkId(st, id) == getManagedBookmarkKeyById(st, id) # UNDEFINED

\* id is a value of state.managedFolderIds, the root included
isManagedFolderId(st, id) ==
  \E key \in DOMAIN st.managedFolderIds : st.managedFolderIds[key] = id

\* the event of task is one the README says is not forwarded: created under
\* a parent that is not a managed folder, changed on an id that is neither a
\* managed bookmark nor a managed folder, removed or moved on an id that is
\* not a managed bookmark
NotForwarded(task) ==
  CASE task.ev.type = "created" -> ~isManagedFolderId(task.st, task.ev.parentId)
    [] task.ev.type = "changed" -> /\ ~isManagedBookmarkId(task.st, task.ev.id)
                                   /\ ~isManagedFolderId(task.st, task.ev.id)
    [] OTHER -> ~isManagedBookmarkId(task.st, task.ev.id)

\* C19: a capture handler enqueues an event only for an extension-managed
\* node: created under a parent that is not a managed folder, and changed,
\* removed or moved on an id that is neither a managed bookmark nor a
\* managed folder, leave the reverse queue unchanged; removed and moved on a
\* managed folder id also leave the queue unchanged.
C19_OnlyManagedNodesCaptured ==
  [][\A i \in Slots :
       (/\ tasks[i].kind = "capture"
        /\ tasks'[i] = Idle
        /\ NotForwarded(tasks[i]))
       => storage'.reverseQueue = storage.reverseQueue]_vars

(***************************************************************************)
(* handleBookmarkCreated under each kind of parent: a managed note folder  *)
(* (201), a managed folder with a folder: key (900), a titled folder with  *)
(* no key (100, the root), an untitled folder (300); the created id may    *)
(* already have a key.                                                     *)
(***************************************************************************)
CreatedParents == {"201", "900", "100", "300"}

CreatedBookmarks ==
  [children |-> ("1" :> <<"100", "900", "300">>) @@ ("300" :> <<>>)
                @@ SeededBookmarks.children,
   title |-> ("300" :> "") @@ SeededBookmarks.title]

\* the managed state with folder 900 managed under folder:Other and, when
\* known, a key already recorded for the first id the store hands out
CreatedState(known) ==
  LET seeded == SeededState([applyEpoch |-> FALSE, epochStartedAt |-> <<>>,
                             cooldownUntil |-> <<>>], FALSE)
  IN [seeded EXCEPT
        !.managedFolderIds = ("folder:Other" :> "900") @@ @,
        !.bookmarkIdToManagedKey =
           IF known THEN (NewNodeId(1) :> "P|7") @@ @ ELSE @]

InitCreated ==
  /\ UnitIdle
  /\ WorkerStart({CreatedState(known) : known \in BOOLEAN}, CreatedBookmarks, "OPEN")

NextCreated ==
  \/ \E parentId \in CreatedParents : UserCreates(parentId)
  \/ DispatchBookmarkEvent
  \/ \E i \in Slots : CaptureLooksUp(i)
  \/ \E i \in Slots : CaptureEnqueues(i)

SpecCreated == InitCreated /\ [][NextCreated]_vars

\* handleBookmarkCreated in slot i appends its event and saves in this step
CreatedEnqueues(i) ==
  /\ tasks[i].kind = "capture"
  /\ tasks[i].ev.type = "created"
  /\ tasks'[i] = Idle
  /\ Len(storage'.reverseQueue) = Len(tasks[i].st.reverseQueue) + 1

\* the key the claim gives for the created event of task
ClaimedKey(task) ==
  LET own == getManagedBookmarkKeyById(task.st, task.ev.id)
      parentKey == getManagedFolderKeyById(task.st, task.ev.parentId)
      parentTitle == Field(bookmarks.title, task.ev.parentId, "")
  IN IF own # UNDEFINED THEN own
     ELSE IF StartsWithNote(parentKey)
     THEN SourcePath(parentKey) \o "|" \o ToString(task.ev.index)
     ELSE IF StartsWithFolder(parentKey) THEN parentKey
     ELSE IF parentTitle # "" THEN "folder:" \o parentTitle
     ELSE "bookmark:" \o task.ev.id

\* the key of task comes from its parent: the id had none and the parent
\* has a note: key, a folder: key or a non-empty title
KeyFromParent(task) ==
  /\ getManagedBookmarkKeyById(task.st, task.ev.id) = UNDEFINED
  /\ ClaimedKey(task) # "bookmark:" \o task.ev.id

\* the event handleBookmarkCreated appended in this step
CreatedItem == storage'.reverseQueue[Len(storage'.reverseQueue)]

JsUndefined == [t |-> "undefined"]

JsNull == [t |-> "null"]

JsBoolean(b) == [t |-> "boolean", b |-> b]

JsNumber(n) == [t |-> "number", n |-> n]

JsString(s) == [t |-> "string", s |-> s]

JsArray(items) == [t |-> "array", items |-> items]

JsObject(props) == [t |-> "object", props |-> props]

\* Number.isNaN(v) of a Date.parse result
NaN == [t |-> "NaN"]

\* object[name]
Prop(object, name) ==
  IF name \in DOMAIN object.props THEN object.props[name] ELSE JsUndefined

\* v && typeof v === "object" && !Array.isArray(v) ? v : {}
ObjectOrEmpty(v) == IF v.t = "object" THEN v ELSE JsObject(<<>>)

\* the instants a drawn timestamp string can denote
ParsedInstants == {0, CooldownMs, TtlMs}

\* Date.parse(s): the instant s denotes, NaN when s is no timestamp
DateParse(s) ==
  IF \E t \in ParsedInstants : s = toISOString(t)
  THEN JsNumber(CHOOSE t \in ParsedInstants : s = toISOString(t))
  ELSE NaN

migrateWsDedupeRaw(raw, t) ==
  LET base == ObjectOrEmpty(raw)
      updatedAt == Prop(base, "updatedAt")
  IN [byClient |-> ObjectOrEmpty(Prop(base, "byClient")),
      updatedAt |-> IF updatedAt.t = "string" THEN updatedAt
                    ELSE JsString(toISOString(t))]

migrateStateRaw(raw, t) ==
  LET base == ObjectOrEmpty(raw)
      sup == ObjectOrEmpty(Prop(base, "suppressionState"))
      given == Prop(sup, "cooldownUntil")
      parsed == DateParse(given.s)
      cooldownUntil ==
        IF given.t = "number" THEN given
        ELSE IF given.t = "string"
             THEN (IF parsed = NaN THEN JsNull ELSE parsed)
             ELSE JsNull
      epochStartedAt == Prop(sup, "epochStartedAt")
      reverseQueue == Prop(base, "reverseQueue")
  IN [managedFolderIds |-> ObjectOrEmpty(Prop(base, "managedFolderIds")),
      managedBookmarkIds |-> ObjectOrEmpty(Prop(base, "managedBookmarkIds")),
      reverseQueue |-> IF reverseQueue.t = "array" THEN reverseQueue
                       ELSE JsArray(<<>>),
      bookmarkIdToManagedKey |->
        ObjectOrEmpty(Prop(base, "bookmarkIdToManagedKey")),
      suppressionState |->
        [applyEpoch |-> Prop(sup, "applyEpoch") = JsBoolean(TRUE),
         epochStartedAt |-> IF epochStartedAt.t \in {"undefined", "null"}
                            THEN JsNull ELSE epochStartedAt,
         cooldownUntil |-> cooldownUntil],
      importInProgress |-> Prop(base, "importInProgress") = JsBoolean(TRUE),
      wsDedupe |-> migrateWsDedupeRaw(Prop(base, "wsDedupe"), t)]

\* an object with the properties of names whose drawn value is not undefined
ObjectOf(names, drawn) ==
  JsObject([n \in {m \in names : drawn[m] # JsUndefined} |-> drawn[n]])

\* the values drawn for a property that should hold a map
DrawnMaps == {JsUndefined, JsNull, JsArray(<<>>), JsObject(<<>>),
              JsObject([k1 |-> JsString("10")])}

\* the suppressionState values drawn
DrawnSuppression ==
  {JsUndefined, JsNull, JsString("corrupted")} \cup
  {ObjectOf({"applyEpoch", "epochStartedAt", "cooldownUntil"},
            [applyEpoch |-> a, epochStartedAt |-> e, cooldownUntil |-> c]) :
     a \in {JsUndefined, JsBoolean(TRUE), JsString("yes")},
     e \in {JsUndefined, JsNull, JsString(toISOString(0)), JsNumber(42)},
     c \in {JsUndefined, JsNull, JsNumber(CooldownMs),
            JsString(toISOString(CooldownMs)), JsString("soon"),
            JsBoolean(TRUE)}}

\* the raw values drawn: what is not an object, and objects that hold any
\* part of the record, well typed or not
RawValues ==
  {JsUndefined, JsNull, JsString("corrupted"),
   JsArray(<<JsObject([foo |-> JsString("bar")])>>)} \cup
  {ObjectOf({"managedFolderIds", "reverseQueue", "suppressionState",
             "importInProgress", "wsDedupe"},
            [managedFolderIds |-> m, reverseQueue |-> q, suppressionState |-> s,
             importInProgress |-> i, wsDedupe |-> w]) :
     m \in DrawnMaps,
     q \in {JsUndefined, JsNull, JsArray(<<JsString("e1"), JsString("e2")>>)},
     s \in DrawnSuppression,
     i \in {JsUndefined, JsBoolean(TRUE), JsNumber(1)},
     w \in {JsUndefined, JsString("corrupted"),
            JsObject([byClient |-> JsObject([c1 |-> JsObject(<<>>)]),
                      updatedAt |-> JsString(toISOString(0))])}}

InitMigrate ==
  /\ state0 \in RawValues
  /\ state = JsUndefined
  /\ fn = "none"
  /\ unitPc = "ready"
  /\ coalescedItems = <<>>
  /\ ackResponse = <<>>
  /\ ackTrace = <<>>
  /\ fetchOutcome = "none"
  /\ console = <<>>
  /\ storageWrites = <<>>
  /\ WorkerIdle

CallMigrateState ==
  /\ fn = "none"
  /\ state' = migrateStateRaw(state0, now)
  /\ fn' = "migrateState"
  /\ unitPc' = "returned"
  /\ UNCHANGED <<state0, coalescedItems, ackResponse, ackTrace, fetchOutcome,
                 console, storageWrites>>
  /\ UnitFrame

NextMigrate == CallMigrateState

SpecMigrate == InitMigrate /\ [][NextMigrate]_vars

\* the suppressionState object migrateState read its three fields from
RawSuppression == ObjectOrEmpty(Prop(ObjectOrEmpty(state0), "suppressionState"))

\* what migrateState returns for a map property: the given object, or {}
MapMigrated(name) ==
  LET given == Prop(ObjectOrEmpty(state0), name)
  IN state[name] = (IF given.t = "object" THEN given ELSE JsObject(<<>>))

\* C21: migrateState(raw), for any raw value (null, undefined, a string, an
\* array, an empty or partial object), returns a record with every field
\* present: each missing or ill-typed field has its documented default
\* ({} for the maps, [] for the queue, false for the flags, null for
\* epochStartedAt and cooldownUntil), every well-typed field given is kept,
\* every reverseQueue item is kept, and a legacy timestamp string in
\* cooldownUntil has become epoch milliseconds.
C21_MigrateDefaultsAndKeeps ==
  fn = "migrateState" =>
    LET base == ObjectOrEmpty(state0)
        queue == Prop(base, "reverseQueue")
        applyEpoch == Prop(RawSuppression, "applyEpoch")
        startedAt == Prop(RawSuppression, "epochStartedAt")
        cooldown == Prop(RawSuppression, "cooldownUntil")
        dedupe == ObjectOrEmpty(Prop(base, "wsDedupe"))
    IN /\ MapMigrated("managedFolderIds")
       /\ MapMigrated("managedBookmarkIds")
       /\ MapMigrated("bookmarkIdToManagedKey")
       /\ state.reverseQueue =
            (IF queue.t = "array" THEN queue ELSE JsArray(<<>>))
       /\ state.suppressionState.applyEpoch =
            (applyEpoch.t = "boolean" /\ applyEpoch.b)
       /\ state.suppressionState.epochStartedAt =
            (IF startedAt.t = "string" THEN startedAt ELSE JsNull)
       /\ state.suppressionState.cooldownUntil =
            (IF cooldown.t = "number" THEN cooldown
             ELSE IF cooldown = JsString(toISOString(CooldownMs))
                  THEN JsNumber(CooldownMs)
                  ELSE JsNull)
       /\ state.importInProgress =
            (Prop(base, "importInProgress") = JsBoolean(TRUE))
       /\ state.wsDedupe.byClient = ObjectOrEmpty(Prop(dedupe, "byClient"))
       /\ state.wsDedupe.updatedAt.t = "string"

(***************************************************************************)
(* The WebSocket session manager: ensureWebSocketConnection, the socket's  *)
(* open and close handlers, patchWebSocketSession.                         *)
(*                                                                         *)
(* chrome.storage.local answers its calls in the order they were made:     *)
(* storageQueue holds the invocations awaiting an answer, and one resumes  *)
(* only at the head.  A get reads, and a set writes, when it is called.    *)
(* Of the session record the fields status, activeClientId, wsUrl,         *)
(* reconnectAttempt, lastError and heartbeatMs are kept; the heartbeat     *)
(* timer is left out.                                                      *)
(***************************************************************************)
NULL == "<null>"

Profile(clientId, enabled, priority) ==
  [clientId |-> clientId, enabled |-> enabled, priority |-> priority,
   token |-> "token-of-" \o clientId,
   url |-> "http://127.0.0.1:27123/" \o clientId,
   wsUrl |-> "ws://127.0.0.1:27123/" \o clientId]

DEFAULT_BRIDGE_PROFILE ==
  [clientId |-> "project2chrome", enabled |-> TRUE, priority |-> 100,
   token |-> "project2chrome-local",
   url |-> "http://127.0.0.1:27123/payload",
   wsUrl |-> "ws://127.0.0.1:27123/ws"]

DEFAULT_WS_SESSION ==
  [status |-> "disconnected", activeClientId |-> DEFAULT_BRIDGE_PROFILE.clientId,
   wsUrl |-> DEFAULT_BRIDGE_PROFILE.wsUrl, reconnectAttempt |-> 0,
   lastError |-> NULL, heartbeatMs |-> 30000]

\* the bridge configs drawn: two profiles, each enabled or not
BridgeConfigs ==
  {[activeClientId |-> "p2",
    profiles |-> <<Profile("p1", e1, 100), Profile("p2", e2, 50)>>] :
     e1 \in BOOLEAN, e2 \in BOOLEAN}

\* the profile's own wsUrl; the drawn profiles all carry one
resolveWebSocketUrl(profile) ==
  IF Truthy(profile.wsUrl) THEN profile.wsUrl ELSE DEFAULT_BRIDGE_PROFILE.wsUrl

resolveActiveProfile(profiles, preferredClientId) ==
  LET requested == readBridgeString(preferredClientId)
      requestedProfiles ==
        SelectSeq(profiles, LAMBDA p : p.clientId = requested /\ p.enabled # FALSE)
      enabledProfiles == SelectSeq(profiles, LAMBDA p : p.enabled # FALSE)
      \* the first profile of the highest priority, as the stable sort leaves it
      top == CHOOSE i \in DOMAIN enabledProfiles :
               \A j \in DOMAIN enabledProfiles :
                 \/ enabledProfiles[j].priority < enabledProfiles[i].priority
                 \/ enabledProfiles[j].priority = enabledProfiles[i].priority /\ i <= j
  IN IF requested # "" /\ requestedProfiles # <<>> THEN Head(requestedProfiles)
     ELSE IF enabledProfiles # <<>> THEN enabledProfiles[top]
     ELSE IF profiles # <<>> THEN profiles[1]
     ELSE DEFAULT_BRIDGE_PROFILE

\* sanitizeWebSocketSession({...current, ...patch}) of two sanitized records
patchedSession(current, patch) ==
  [k \in DOMAIN current |-> IF k \in DOMAIN patch THEN patch[k] ELSE current[k]]

\* the invocation in slot i is the next chrome.storage.local answers
Answered(i) == storageQueue # <<>> /\ Head(storageQueue) = i

\* the sockets that are CONNECTING or OPEN
LiveSockets == {s \in DOMAIN sockets : sockets[s].readyState \in {"CONNECTING", "OPEN"}}

\* what a step of the session manager leaves alone
SessionRest ==
  /\ UNCHANGED unitVars
  /\ UNCHANGED <<storage, now, bookmarks, pendingEvents, nodeCount,
                 reverseFlushTimer, reverseFlushInFlight, wsInboundQueue, applied,
                 echoed, ticks, edits, delivered, bridgeConfig, handed, armed>>

SessionFrame == SessionRest /\ UNCHANGED wsHeartbeatTimer

InitSession ==
  /\ UnitIdle
  /\ storage = SeededState([applyEpoch |-> FALSE, epochStartedAt |-> <<>>,
                            cooldownUntil |-> <<>>], FALSE)
  /\ now = 0
  /\ bookmarks = SeededBookmarks
  /\ pendingEvents = <<>>
  /\ tasks = [i \in 1..MaxCallers |-> Idle]
  /\ uuids = 0
  /\ nodeCount = 0
  /\ syslog = {}
  /\ reverseFlushTimer = FALSE
  /\ reverseFlushInFlight = FALSE
  /\ wsReady = "NONE"
  /\ wsInboundQueue = <<>>
  /\ wsOutboundQueue = <<>>
  /\ wire = <<>>
  /\ applied = <<>>
  /\ echoed = {}
  /\ ticks = 0
  /\ edits = 0
  /\ delivered = <<>>
  /\ wsSession = DEFAULT_WS_SESSION
  /\ bridgeConfig \in BridgeConfigs
  /\ sockets = <<>>
  /\ wsClient = 0
  /\ wsReconnectTimer = FALSE
  /\ storageQueue = <<>>
  /\ connects = 0
  /\ wsHeartbeatTimer = FALSE
  /\ handed = <<>>
  /\ armed = {}

\* ensureWebSocketConnection(reason) up to the get of getBridgeConfig
CallEnsure(reason) ==
  /\ connects < MaxConnects
  /\ HasFreeSlot
  /\ connects' = connects + 1
  /\ tasks' = [tasks EXCEPT ![FreeSlot] =
                 [kind |-> "ensure", pc |-> "config_get", reason |-> reason,
                  got |-> bridgeConfig]]
  /\ storageQueue' = Append(storageQueue, FreeSlot)

\* the alarm listener, runReverseFlush, the setBridgeConfig message and
\* syncFromBridge call ensureWebSocketConnection
EnsureCalled(reason) ==
  /\ CallEnsure(reason)
  /\ UNCHANGED <<uuids, syslog, wsReady, wsOutboundQueue, wire, wsSession, sockets,
                 wsClient, wsReconnectTimer>>
  /\ SessionFrame

\* the back-off timer set by markWebSocketDisconnected
ReconnectTimerFires ==
  /\ wsReconnectTimer
  /\ wsReconnectTimer' = FALSE
  /\ CallEnsure("timer_backoff")
  /\ UNCHANGED <<uuids, syslog, wsReady, wsOutboundQueue, wire, wsSession, sockets,
                 wsClient>>
  /\ SessionFrame

\* getBridgeConfig: the get answered, the sanitized config written back
EnsureConfigRead(i) ==
  /\ tasks[i].kind = "ensure" /\ tasks[i].pc = "config_get"
  /\ Answered(i)
  /\ tasks' = [tasks EXCEPT ![i].pc = "config_set"]
  /\ storageQueue' = Append(Tail(storageQueue), i)
  /\ UNCHANGED <<uuids, syslog, wsReady, wsOutboundQueue, wire, wsSession, sockets,
                 wsClient, wsReconnectTimer, connects>>
  /\ SessionFrame

\* the profile ensureWebSocketConnection resolves from the config it read
EnsuredProfile(config) ==
  resolveActiveProfile(
    config.profiles,
    resolveActiveProfile(config.profiles, config.activeClientId).clientId)

\* ensureWebSocketConnection without the test of profile.enabled
ensureWebSocketConnection_NoProfileCheck(task) ==
  LET profile == EnsuredProfile(task.got)
  IN IF wsClient # 0 /\ sockets[wsClient].readyState \in {"OPEN", "CONNECTING"}
     THEN Idle
     ELSE [kind |-> "ensure", pc |-> "session", reason |-> task.reason,
           profile |-> profile, got |-> wsSession]

\* ensureWebSocketConnection from the config to its next await
ensureWebSocketConnection(task) ==
  LET profile == EnsuredProfile(task.got)
      wsUrl == resolveWebSocketUrl(profile)
  IN IF profile.enabled = FALSE
     THEN [kind |-> "ensure", pc |-> "patch_get", reason |-> task.reason,
           profile |-> profile, got |-> wsSession, after |-> "return",
           patch |-> [status |-> "disconnected",
                      activeClientId |-> profile.clientId,
                      lastError |-> "active_profile_disabled"]]
     ELSE IF wsClient # 0 /\ sockets[wsClient].readyState \in {"OPEN", "CONNECTING"}
     THEN Idle
     ELSE [kind |-> "ensure", pc |-> "session", reason |-> task.reason,
           profile |-> profile, got |-> wsSession]

EnsureResolves(i) ==
  /\ tasks[i].kind = "ensure" /\ tasks[i].pc = "config_set"
  /\ Answered(i)
  /\ LET next == ensureWebSocketConnection(tasks[i])
     IN /\ tasks' = [tasks EXCEPT ![i] = next]
        /\ storageQueue' = IF next = Idle THEN Tail(storageQueue)
                           ELSE Append(Tail(storageQueue), i)
        /\ wsReconnectTimer' = IF next # Idle /\ next.pc = "session" THEN FALSE
                               ELSE wsReconnectTimer
        /\ uuids' = IF next # Idle /\ next.pc = "session" THEN uuids + 1 ELSE uuids
  /\ UNCHANGED <<syslog, wsReady, wsOutboundQueue, wire, wsSession, sockets, wsClient,
                 connects>>
  /\ SessionFrame

\* getWebSocketSession answered; patchWebSocketSession called
EnsureSessionRead(i) ==
  /\ tasks[i].kind = "ensure" /\ tasks[i].pc = "session"
  /\ Answered(i)
  /\ tasks' = [tasks EXCEPT ![i] =
       [kind |-> "ensure", pc |-> "patch_get", reason |-> tasks[i].reason,
        profile |-> tasks[i].profile, got |-> wsSession, after |-> "connect",
        patch |-> [status |-> IF tasks[i].got.reconnectAttempt > 0
                              THEN "reconnecting" ELSE "connecting",
                   activeClientId |-> tasks[i].profile.clientId,
                   wsUrl |-> resolveWebSocketUrl(tasks[i].profile),
                   lastError |-> NULL]]]
  /\ storageQueue' = Append(Tail(storageQueue), i)
  /\ UNCHANGED <<uuids, syslog, wsReady, wsOutboundQueue, wire, wsSession, sockets,
                 wsClient, wsReconnectTimer, connects>>
  /\ SessionFrame

\* patchWebSocketSession: its get answered, the patched record set
PatchSaves(i) ==
  /\ tasks[i].kind \in {"ensure", "open", "close", "patch"}
  /\ tasks[i].pc = "patch_get"
  /\ Answered(i)
  /\ wsSession' = patchedSession(tasks[i].got, tasks[i].patch)
  /\ tasks' = [tasks EXCEPT ![i].pc = "patch_set"]
  /\ storageQueue' = Append(Tail(storageQueue), i)
  /\ UNCHANGED <<uuids, syslog, wsReady, wsOutboundQueue, wire, sockets, wsClient,
                 wsReconnectTimer, connects>>
  /\ SessionFrame

\* the patch of a disabled profile, or of a queued send, is stored
PatchReturns(i) ==
  /\ tasks[i].kind \in {"ensure", "patch"}
  /\ tasks[i].pc = "patch_set"
  /\ tasks[i].after = "return"
  /\ Answered(i)
  /\ tasks' = [tasks EXCEPT ![i] = Idle]
  /\ storageQueue' = Tail(storageQueue)
  /\ UNCHANGED <<uuids, syslog, wsReady, wsOutboundQueue, wire, wsSession, sockets,
                 wsClient, wsReconnectTimer, connects>>
  /\ SessionFrame

\* rsLog("ws_connecting", ...), new WebSocket(wsUrl), the handlers installed
EnsureConnects(i) ==
  /\ tasks[i].kind = "ensure" /\ tasks[i].pc = "patch_set"
  /\ tasks[i].after = "connect"
  /\ Answered(i)
  /\ syslog' = syslog \cup
       {[event |-> "ws_connecting", clientId |-> tasks[i].profile.clientId,
         reason |-> tasks[i].reason,
         wsUrl |-> resolveWebSocketUrl(tasks[i].profile)]}
  /\ sockets' = Append(sockets, [readyState |-> "CONNECTING",
                                 profile |-> tasks[i].profile])
  /\ wsClient' = Len(sockets) + 1
  /\ wsReady' = "CONNECTING"
  /\ tasks' = [tasks EXCEPT ![i] = Idle]
  /\ storageQueue' = Tail(storageQueue)
  /\ UNCHANGED <<uuids, wsOutboundQueue, wire, wsSession, wsReconnectTimer, connects>>
  /\ SessionFrame

\* socket s opens: onopen calls handleWebSocketOpen(profile)
WebSocketOpens(s) ==
  /\ sockets[s].readyState = "CONNECTING"
  /\ HasFreeSlot
  /\ sockets' = [sockets EXCEPT ![s].readyState = "OPEN"]
  /\ wsReady' = IF wsClient = s THEN "OPEN" ELSE wsReady
  /\ tasks' = [tasks EXCEPT ![FreeSlot] =
       [kind |-> "open", pc |-> "patch_get", socket |-> s,
        profile |-> sockets[s].profile, got |-> wsSession, after |-> "handshake",
        patch |-> [status |-> "connected",
                   activeClientId |-> sockets[s].profile.clientId,
                   wsUrl |-> resolveWebSocketUrl(sockets[s].profile),
                   reconnectAttempt |-> 0,
                   lastError |-> NULL]]]
  /\ storageQueue' = Append(storageQueue, FreeSlot)
  /\ UNCHANGED <<uuids, syslog, wsOutboundQueue, wire, wsSession, wsClient,
                 wsReconnectTimer, connects>>
  /\ SessionFrame

\* the handshake envelope handleWebSocketOpen sends
Handshake(profile) ==
  [type |-> "handshake", clientId |-> profile.clientId, schemaVersion |-> "1.0",
   token |-> profile.token]

\* handleWebSocketOpen after its patch: the handshake, the heartbeat interval
\* (cleared and set again), flushWsOutboundQueue.
\* With wsClient OPEN the handshake and the queue go out and the flush patches
\* the session; otherwise the handshake is queued, sendWsEnvelope's own patch
\* goes on detached and the handler logs ws_connected and returns.
SessionOpenHandshakes(i) ==
  /\ tasks[i].kind = "open" /\ tasks[i].pc = "patch_set"
  /\ tasks[i].after = "handshake"
  /\ Answered(i)
  /\ uuids' = uuids + 1
  /\ IF wsClient # 0 /\ sockets[wsClient].readyState = "OPEN"
     THEN /\ wire' = (wire \o <<Handshake(tasks[i].profile)>>) \o wsOutboundQueue
          /\ wsOutboundQueue' = <<>>
          /\ tasks' = [tasks EXCEPT ![i] =
               [kind |-> "open", pc |-> "patch_get", socket |-> tasks[i].socket,
                profile |-> tasks[i].profile, got |-> wsSession,
                after |-> "connected", patch |-> <<>>]]
          /\ UNCHANGED syslog
     ELSE /\ wsOutboundQueue' = Append(wsOutboundQueue, Handshake(tasks[i].profile))
          /\ UNCHANGED wire
          /\ tasks' = [tasks EXCEPT ![i] =
               [kind |-> "patch", pc |-> "patch_get", got |-> wsSession,
                after |-> "return", patch |-> <<>>]]
          /\ syslog' = syslog \cup
               {[event |-> "ws_connected", clientId |-> tasks[i].profile.clientId]}
  /\ storageQueue' = Append(Tail(storageQueue), i)
  /\ wsHeartbeatTimer' = TRUE
  /\ UNCHANGED <<wsReady, wsSession, sockets, wsClient, wsReconnectTimer, connects>>
  /\ SessionRest

\* handleWebSocketOpen returns after flushWsOutboundQueue's patch
SessionOpenReturns(i) ==
  /\ tasks[i].kind = "open" /\ tasks[i].pc = "patch_set"
  /\ tasks[i].after = "connected"
  /\ Answered(i)
  /\ syslog' = syslog \cup
       {[event |-> "ws_connected", clientId |-> tasks[i].profile.clientId]}
  /\ tasks' = [tasks EXCEPT ![i] = Idle]
  /\ storageQueue' = Tail(storageQueue)
  /\ UNCHANGED <<uuids, wsReady, wsOutboundQueue, wire, wsSession, sockets, wsClient,
                 wsReconnectTimer, connects>>
  /\ SessionFrame

\* socket s closes: onclose calls handleWebSocketClose, which clears the
\* heartbeat interval and wsClient and calls markWebSocketDisconnected
WebSocketCloses(s) ==
  /\ s \in LiveSockets
  /\ HasFreeSlot
  /\ sockets' = [sockets EXCEPT ![s].readyState = "CLOSED"]
  /\ wsClient' = 0
  /\ wsReady' = "NONE"
  /\ tasks' = [tasks EXCEPT ![FreeSlot] =
       [kind |-> "close", pc |-> "mark_get", socket |-> s, got |-> wsSession,
        before |-> wsSession.reconnectAttempt]]
  /\ storageQueue' = Append(storageQueue, FreeSlot)
  /\ wsHeartbeatTimer' = FALSE
  /\ UNCHANGED <<uuids, syslog, wsOutboundQueue, wire, wsSession, wsReconnectTimer,
                 connects>>
  /\ SessionRest

\* markWebSocketDisconnected: getWebSocketSession answered, the patch called
CloseReads(i) ==
  /\ tasks[i].kind = "close" /\ tasks[i].pc = "mark_get"
  /\ Answered(i)
  /\ tasks' = [tasks EXCEPT ![i] =
       [kind |-> "close", pc |-> "patch_get", socket |-> tasks[i].socket,
        got |-> wsSession, before |-> tasks[i].before, after |-> "schedule",
        patch |-> [status |-> "disconnected",
                   reconnectAttempt |-> tasks[i].got.reconnectAttempt + 1,
                   lastError |-> "close_4000:closed"]]]
  /\ storageQueue' = Append(Tail(storageQueue), i)
  /\ UNCHANGED <<uuids, syslog, wsReady, wsOutboundQueue, wire, wsSession, sockets,
                 wsClient, wsReconnectTimer, connects>>
  /\ SessionFrame

\* markWebSocketDisconnected after its patch: the log, the timer, the alarm
CloseSchedules(i) ==
  /\ tasks[i].kind = "close" /\ tasks[i].pc = "patch_set"
  /\ Answered(i)
  /\ syslog' = syslog \cup
       {[event |-> "ws_disconnected", reason |-> "close_4000", detail |-> "closed"]}
  /\ wsReconnectTimer' = TRUE
  /\ tasks' = [tasks EXCEPT ![i].pc = "alarm"]
  /\ storageQueue' = Tail(storageQueue)
  /\ UNCHANGED <<uuids, wsReady, wsOutboundQueue, wire, wsSession, sockets, wsClient,
                 connects>>
  /\ SessionFrame

\* chrome.alarms.create answered: handleWebSocketClose returns
CloseReturns(i) ==
  /\ tasks[i].kind = "close" /\ tasks[i].pc = "alarm"
  /\ tasks' = [tasks EXCEPT ![i] = Idle]
  /\ UNCHANGED <<uuids, syslog, wsReady, wsOutboundQueue, wire, wsSession, sockets,
                 wsClient, wsReconnectTimer, storageQueue, connects>>
  /\ SessionFrame

NextSession ==
  \/ \E reason \in {"manual_sync", "alarm_reconnect"} : EnsureCalled(reason)
  \/ ReconnectTimerFires
  \/ \E i \in Slots : EnsureConfigRead(i)
  \/ \E i \in Slots : EnsureResolves(i)
  \/ \E i \in Slots : EnsureSessionRead(i)
  \/ \E i \in Slots : PatchSaves(i)
  \/ \E i \in Slots : PatchReturns(i)
  \/ \E i \in Slots : EnsureConnects(i)
  \/ \E s \in DOMAIN sockets : WebSocketOpens(s)
  \/ \E i \in Slots : SessionOpenHandshakes(i)
  \/ \E i \in Slots : SessionOpenReturns(i)
  \/ \E s \in DOMAIN sockets : WebSocketCloses(s)
  \/ \E i \in Slots : CloseReads(i)
  \/ \E i \in Slots : CloseSchedules(i)
  \/ \E i \in Slots : CloseReturns(i)

SpecSession == InitSession /\ [][NextSession]_vars

\* C22: after a socket close, when the close handler's patch is stored the
\* persisted reconnectAttempt is strictly greater than it was when the socket
\* closed and status is disconnected; when the open handler's patch is
\* stored, reconnectAttempt is 0 and status is connected.
C22_CloseIncrementsOpenResets ==
  [][\A i \in Slots :
       /\ CloseSchedules(i) =>
            /\ wsSession.status = "disconnected"
            /\ wsSession.reconnectAttempt > tasks[i].before
       /\ (SessionOpenHandshakes(i) \/ SessionOpenReturns(i)) =>
            /\ wsSession.status = "connected"
            /\ wsSession.reconnectAttempt = 0]_vars

\* C23: for every interleaving of the callers of ensureWebSocketConnection
\* at its awaits, no socket is created while another socket the gateway
\* created is CONNECTING or OPEN, so at most one such socket exists at a time.
C23_OneLiveSocket ==
  Cardinality(LiveSockets) <= 1

\* the active profile the stored config resolves to is disabled
ProfileDisabled == EnsuredProfile(bridgeConfig).enabled = FALSE

\* C24: when the resolved active profile is disabled, a call of
\* ensureWebSocketConnection goes from the config to patchWebSocketSession,
\* the patch it stores has status = disconnected and lastError =
\* active_profile_disabled, it returns only after that write, and no socket
\* is created.
C24_DisabledProfileDisconnects ==
  [][ProfileDisabled =>
       /\ sockets' = <<>>
       /\ \A i \in Slots :
            tasks[i].kind = "ensure" =>
              /\ EnsureResolves(i) => tasks'[i].kind = "ensure" /\ tasks'[i].pc = "patch_get"
              /\ PatchSaves(i) =>
                   /\ wsSession'.status = "disconnected"
                   /\ wsSession'.lastError = "active_profile_disabled"
              /\ tasks'[i] = Idle => tasks[i].pc = "patch_set"]_vars

\* a call with every profile disabled has written the error and returned
C24_Witness ==
  /\ ProfileDisabled
  /\ connects > 0
  /\ \A i \in Slots : tasks[i] = Idle
  /\ wsSession.status = "disconnected"
  /\ wsSession.lastError = "active_profile_disabled"
  /\ sockets = <<>>

(***************************************************************************)
(* The envelope codec: parseAndValidateWsEnvelope on a decoded JSON value. *)
(***************************************************************************)
WS_MESSAGE_TYPES ==
  {"handshake", "handshake_ack", "action", "ack", "error", "heartbeat_ping",
   "heartbeat_pong"}

WS_ACK_STATUSES == {"received", "applied", "duplicate", "skipped", "rejected"}

LEGACY_ACK_STATUSES ==
  {"applied", "skipped_ambiguous", "skipped_unmanaged", "rejected_invalid",
   "duplicate"}

\* a number that is not an integer
JsFraction(n) == [t |-> "number", n |-> n, fraction |-> TRUE]

\* value.trim() of the strings drawn
Trim(s) ==
  CASE s = " evt-1 " -> "evt-1"
    [] s = "  " -> ""
    [] s = " action" -> "action"
    [] OTHER -> s

\* !value of what the readers return
Falsy(v) == v \in {JsNull, JsUndefined, JsString("")}

isRecord(value) == value.t \in {"object", "array"}

\* body[name] of a value that is a record
Read(body, name) == IF body.t = "object" THEN Prop(body, name) ELSE JsUndefined

readString(value) ==
  IF value.t # "string" THEN JsNull
  ELSE IF Trim(value.s) # "" THEN JsString(Trim(value.s)) ELSE JsNull

readOptionalString(value) ==
  IF value = JsUndefined THEN JsUndefined ELSE readString(value)

readMessageType(value) ==
  IF value.t # "string" THEN JsNull
  ELSE IF value.s \in WS_MESSAGE_TYPES THEN value ELSE JsNull

readWsAckStatus(value) ==
  IF value.t # "string" THEN JsNull
  ELSE IF value.s \in WS_ACK_STATUSES THEN value ELSE JsNull

readOptionalLegacyAckStatus(value) ==
  IF value = JsUndefined THEN JsUndefined
  ELSE IF value.t # "string" THEN JsNull
  ELSE IF value.s \in LEGACY_ACK_STATUSES THEN value ELSE JsNull

readHeartbeatMs(value) ==
  IF value.t # "number" \/ "fraction" \in DOMAIN value THEN JsNull
  ELSE IF value.n >= 1000 /\ value.n <= 120000 THEN value ELSE JsNull

readOptionalStringArray(value) ==
  IF value = JsUndefined THEN JsUndefined
  ELSE IF value.t # "array" THEN JsNull
  ELSE IF \E k \in DOMAIN value.items : Falsy(readString(value.items[k]))
       THEN JsNull
       ELSE JsArray([k \in DOMAIN value.items |-> readString(value.items[k])])

readRecord(value) == IF value.t = "object" THEN value ELSE JsNull

readOptionalRecord(value) ==
  IF value = JsUndefined THEN JsUndefined ELSE readRecord(value)

\* value || undefined
OrUndefined(v) == IF Falsy(v) THEN JsUndefined ELSE v

\* the object with the properties of both, those of own winning
WithProps(shared, own) ==
  [k \in DOMAIN shared \cup DOMAIN own |->
     IF k \in DOMAIN own THEN own[k] ELSE shared[k]]

\* parseAndValidateWsEnvelope without the range test of readHeartbeatMs
parseAndValidateWsEnvelope_AnyHeartbeat(body) ==
  LET type == readMessageType(Read(body, "type"))
      shared == [n \in {"eventId", "clientId", "occurredAt", "schemaVersion"} |->
                   readString(Read(body, n))]
      sessionId == readString(Read(body, "sessionId"))
      accepted == Read(body, "accepted")
      heartbeatMs == Read(body, "heartbeatMs")
  IN IF \/ ~isRecord(body) \/ Falsy(type) \/ \E n \in DOMAIN shared : Falsy(shared[n])
        \/ type.s # "handshake_ack"
        \/ Falsy(sessionId) \/ accepted.t # "boolean" \/ heartbeatMs.t # "number"
     THEN JsNull
     ELSE WithProps(shared, [type |-> type, sessionId |-> sessionId,
                             accepted |-> accepted, heartbeatMs |-> heartbeatMs,
                             idempotencyKey |-> JsUndefined,
                             correlationId |-> JsUndefined])

parseAndValidateWsEnvelope(body) ==
  LET type == readMessageType(Read(body, "type"))
      shared == [n \in {"eventId", "clientId", "occurredAt", "schemaVersion"} |->
                   readString(Read(body, n))]
      idempotencyKey == readOptionalString(Read(body, "idempotencyKey"))
      correlationId == readOptionalString(Read(body, "correlationId"))
      common == WithProps(shared, [type |-> type,
                                   idempotencyKey |-> OrUndefined(idempotencyKey),
                                   correlationId |-> OrUndefined(correlationId)])
      sessionId == readString(Read(body, "sessionId"))
      token == readString(Read(body, "token"))
      capabilities == readOptionalStringArray(Read(body, "capabilities"))
      accepted == Read(body, "accepted")
      heartbeatMs == readHeartbeatMs(Read(body, "heartbeatMs"))
      op == readString(Read(body, "op"))
      target == readString(Read(body, "target"))
      payload == readRecord(Read(body, "payload"))
      status == readWsAckStatus(Read(body, "status"))
      reason == readOptionalString(Read(body, "reason"))
      resolvedPath == readOptionalString(Read(body, "resolvedPath"))
      resolvedKey == readOptionalString(Read(body, "resolvedKey"))
      legacyStatus == readOptionalLegacyAckStatus(Read(body, "legacyStatus"))
      code == readString(Read(body, "code"))
      message == readString(Read(body, "message"))
      retryable == Read(body, "retryable")
      details == readOptionalRecord(Read(body, "details"))
  IN IF ~isRecord(body) THEN JsNull
     ELSE IF Falsy(type) \/ \E n \in DOMAIN shared : Falsy(shared[n]) THEN JsNull
     ELSE IF idempotencyKey = JsNull \/ correlationId = JsNull THEN JsNull
     ELSE IF type.s = "handshake"
     THEN IF Falsy(sessionId) \/ Falsy(token) \/ capabilities = JsNull THEN JsNull
          ELSE WithProps(common, [sessionId |-> sessionId, token |-> token,
                                  capabilities |-> OrUndefined(capabilities)])
     ELSE IF type.s = "handshake_ack"
     THEN IF Falsy(sessionId) \/ accepted.t # "boolean" \/ heartbeatMs = JsNull
          THEN JsNull
          ELSE WithProps(common, [sessionId |-> sessionId, accepted |-> accepted,
                                  heartbeatMs |-> heartbeatMs])
     ELSE IF type.s = "action"
     THEN IF Falsy(op) \/ Falsy(target) \/ Falsy(payload) \/ Falsy(idempotencyKey)
          THEN JsNull
          ELSE WithProps(common, [op |-> op, target |-> target,
                                  payload |-> payload])
     ELSE IF type.s = "ack"
     THEN IF \/ Falsy(status) \/ Falsy(correlationId)
             \/ reason = JsNull \/ resolvedPath = JsNull \/ resolvedKey = JsNull
             \/ legacyStatus = JsNull
          THEN JsNull
          ELSE WithProps(common, [status |-> status,
                                  reason |-> OrUndefined(reason),
                                  resolvedPath |-> OrUndefined(resolvedPath),
                                  resolvedKey |-> OrUndefined(resolvedKey),
                                  legacyStatus |-> OrUndefined(legacyStatus)])
     ELSE IF type.s = "error"
     THEN IF \/ Falsy(code) \/ Falsy(message) \/ retryable.t # "boolean"
             \/ details = JsNull
          THEN JsNull
          ELSE WithProps(common, [code |-> code, message |-> message,
                                  retryable |-> retryable,
                                  details |-> OrUndefined(details)])
     ELSE IF type.s = "heartbeat_ping" THEN common
     ELSE IF Falsy(correlationId) THEN JsNull
     ELSE common

\* the values drawn for a property that must be a non-empty string
DrawnTexts(text) == {JsString(text), JsString("  "), JsUndefined}

\* the four shared string fields, well formed
GoodSharedTexts ==
  [eventId |-> JsString(" evt-1 "), clientId |-> JsString("project2chrome"),
   occurredAt |-> JsString(toISOString(0)), schemaVersion |-> JsString("1.0")]

\* the four shared string fields: all well formed, or one of them not
DrawnSharedTexts ==
  {GoodSharedTexts} \cup
  {[GoodSharedTexts EXCEPT ![n] = v] :
     n \in DOMAIN GoodSharedTexts,
     v \in {JsString("  "), JsNumber(1), JsUndefined}}

\* the fields every envelope shares, as drawn
DrawnShared ==
  {WithProps(texts, [type |-> type, idempotencyKey |-> idempotencyKey,
                     correlationId |-> correlationId]) :
     texts \in DrawnSharedTexts,
     type \in {JsString(m) : m \in WS_MESSAGE_TYPES} \cup
              {JsString("future_type"), JsString(" action"), JsUndefined},
     idempotencyKey \in {JsUndefined, JsString("idem-1"), JsString("")},
     correlationId \in {JsUndefined, JsString("evt-0"), JsNumber(7)}}

\* the fields of one message type, well formed
GoodOwn(type) ==
  IF type = JsString("handshake")
  THEN [sessionId |-> JsString("ses-1"), token |-> JsString("project2chrome-local")]
  ELSE IF type = JsString("handshake_ack")
  THEN [sessionId |-> JsString("ses-1"), accepted |-> JsBoolean(TRUE),
        heartbeatMs |-> JsNumber(30000)]
  ELSE IF type = JsString("action")
  THEN [op |-> JsString("bookmark_created"), target |-> JsString("bookmark:123"),
        payload |-> JsObject(<<>>)]
  ELSE IF type = JsString("ack") THEN [status |-> JsString("applied")]
  ELSE IF type = JsString("error")
  THEN [code |-> JsString("E1"), message |-> JsString("failed"),
        retryable |-> JsBoolean(FALSE)]
  ELSE <<>>

\* the fields of one message type, as drawn
DrawnOwn(type) ==
  IF type = JsString("handshake")
  THEN {[sessionId |-> s, token |-> k, capabilities |-> c] :
          s \in DrawnTexts("ses-1"), k \in DrawnTexts("project2chrome-local"),
          c \in {JsUndefined, JsArray(<<JsString("action"), JsString("ack")>>),
                 JsArray(<<JsString("action"), JsString("  ")>>),
                 JsString("action")}}
  ELSE IF type = JsString("handshake_ack")
  THEN {[sessionId |-> s, accepted |-> a, heartbeatMs |-> h] :
          s \in {JsString("ses-1"), JsUndefined},
          a \in {JsBoolean(TRUE), JsString("yes"), JsUndefined},
          h \in {JsNumber(999), JsNumber(1000), JsNumber(30000), JsNumber(120000),
                 JsNumber(120001), JsFraction(1500), JsString("30000"),
                 JsUndefined}}
  ELSE IF type = JsString("action")
  THEN {[op |-> o, target |-> g, payload |-> p] :
          o \in {JsString("bookmark_created"), JsUndefined},
          g \in {JsString("bookmark:123"), JsString("  ")},
          p \in {JsObject([title |-> JsString("test")]), JsObject(<<>>),
                 JsArray(<<>>), JsNull, JsUndefined}}
  ELSE IF type = JsString("ack")
  THEN {[status |-> s, legacyStatus |-> l, reason |-> r, resolvedKey |-> k] :
          s \in {JsString("skipped"), JsString("future_status"), JsUndefined},
          l \in {JsUndefined, JsString("skipped_unmanaged"),
                 JsString("future_status"), JsNumber(1)},
          r \in {JsUndefined, JsString("why"), JsString(""), JsNumber(5)},
          k \in {JsUndefined, JsString("note:a"), JsString("  ")}}
  ELSE IF type = JsString("error")
  THEN {[code |-> c, message |-> m, retryable |-> r, details |-> d] :
          c \in {JsString("E1"), JsUndefined},
          m \in {JsString("failed"), JsString("")},
          r \in {JsBoolean(FALSE), JsString("no"), JsUndefined},
          d \in {JsUndefined, JsObject(<<>>), JsArray(<<>>), JsString("x")}}
  ELSE {<<>>}

\* the bodies drawn: values that are no record, and records of every type
\* with one shared field ill formed or missing, or with any of the type's own
\* fields ill formed or missing
DrawnBodies ==
  {JsNull, JsUndefined, JsString("{}"), JsArray(<<>>)} \cup
  UNION {{ObjectOf(DOMAIN shared \cup DOMAIN own, WithProps(shared, own)) :
            own \in IF \A n \in DOMAIN GoodSharedTexts : shared[n] = GoodSharedTexts[n]
                    THEN DrawnOwn(shared.type)
                    ELSE {GoodOwn(shared.type)}} :
         shared \in DrawnShared}

InitParse ==
  /\ state0 \in DrawnBodies
  /\ state = JsUndefined
  /\ fn = "none"
  /\ unitPc = "ready"
  /\ coalescedItems = <<>>
  /\ ackResponse = <<>>
  /\ ackTrace = <<>>
  /\ fetchOutcome = "none"
  /\ console = <<>>
  /\ storageWrites = <<>>
  /\ WorkerIdle

CallParseAndValidateWsEnvelope ==
  /\ fn = "none"
  /\ state' = parseAndValidateWsEnvelope(state0)
  /\ fn' = "parseAndValidateWsEnvelope"
  /\ unitPc' = "returned"
  /\ UNCHANGED <<state0, coalescedItems, ackResponse, ackTrace, fetchOutcome,
                 console, storageWrites>>
  /\ UnitFrame

NextParse == CallParseAndValidateWsEnvelope

SpecParse == InitParse /\ [][NextParse]_vars

\* v is a string that is not empty after trimming
NonEmptyText(v) == v.t = "string" /\ Trim(v.s) # ""

\* v is absent, or a string that is not empty after trimming
OptionalText(v) == v = JsUndefined \/ NonEmptyText(v)

\* the shared part of the schema
SharedSchema(body) ==
  /\ body.t = "object"
  /\ Read(body, "type").t = "string" /\ Read(body, "type").s \in WS_MESSAGE_TYPES
  /\ \A n \in {"eventId", "clientId", "occurredAt", "schemaVersion"} :
       NonEmptyText(Read(body, n))
  /\ OptionalText(Read(body, "idempotencyKey"))
  /\ OptionalText(Read(body, "correlationId"))

\* the fields the schema requires of each type, and the optional
\* capabilities and legacyStatus
OwnSchema(body) ==
  LET type == Read(body, "type").s
      capabilities == Read(body, "capabilities")
      heartbeatMs == Read(body, "heartbeatMs")
      status == Read(body, "status")
      legacyStatus == Read(body, "legacyStatus")
  IN CASE type = "handshake" ->
            /\ NonEmptyText(Read(body, "sessionId"))
            /\ NonEmptyText(Read(body, "token"))
            /\ \/ capabilities = JsUndefined
               \/ /\ capabilities.t = "array"
                  /\ \A k \in DOMAIN capabilities.items :
                       NonEmptyText(capabilities.items[k])
       [] type = "handshake_ack" ->
            /\ NonEmptyText(Read(body, "sessionId"))
            /\ Read(body, "accepted").t = "boolean"
            /\ heartbeatMs.t = "number" /\ "fraction" \notin DOMAIN heartbeatMs
            /\ heartbeatMs.n \in 1000..120000
       [] type = "action" ->
            /\ NonEmptyText(Read(body, "op"))
            /\ NonEmptyText(Read(body, "target"))
            /\ Read(body, "payload").t = "object"
            /\ NonEmptyText(Read(body, "idempotencyKey"))
       [] type = "ack" ->
            /\ NonEmptyText(Read(body, "correlationId"))
            /\ status.t = "string" /\ status.s \in WS_ACK_STATUSES
            /\ \/ legacyStatus = JsUndefined
               \/ legacyStatus.t = "string" /\ legacyStatus.s \in LEGACY_ACK_STATUSES
       [] type = "error" ->
            /\ NonEmptyText(Read(body, "code"))
            /\ NonEmptyText(Read(body, "message"))
            /\ Read(body, "retryable").t = "boolean"
       [] type = "heartbeat_ping" -> TRUE
       [] type = "heartbeat_pong" -> NonEmptyText(Read(body, "correlationId"))

\* the optional fields of ack and error the codec also checks
OptionalSchema(body) ==
  LET type == Read(body, "type").s
      details == Read(body, "details")
  IN /\ type = "ack" =>
          /\ OptionalText(Read(body, "reason"))
          /\ OptionalText(Read(body, "resolvedPath"))
          /\ OptionalText(Read(body, "resolvedKey"))
     /\ type = "error" => details = JsUndefined \/ details.t = "object"

\* C25 as stated: parseAndValidateWsEnvelope(body) returns an envelope
\* exactly when the five shared fields are non-empty strings after trimming,
\* type is one of the seven message types, idempotencyKey and correlationId
\* are non-empty strings when present and the listed fields of the type
\* hold, and null otherwise.
C25_ParsesExactlyListedSchema ==
  fn = "parseAndValidateWsEnvelope" =>
    (state # JsNull <=> SharedSchema(state0) /\ OwnSchema(state0))

\* C25, amended: parseAndValidateWsEnvelope(body) returns an envelope, with
\* the type of body and its shared fields trimmed, exactly when body passes
\* the listed schema and, in addition, an ack's reason, resolvedPath and
\* resolvedKey are non-empty strings when present and an error's details is
\* an object when present; it returns null otherwise.
C25_ParsesExactlyFullSchema ==
  fn = "parseAndValidateWsEnvelope" =>
    IF SharedSchema(state0) /\ OwnSchema(state0) /\ OptionalSchema(state0)
    THEN /\ state # JsNull
         /\ state.type = Read(state0, "type")
         /\ \A n \in {"eventId", "clientId", "occurredAt", "schemaVersion"} :
              state[n] = JsString(Trim(Read(state0, n).s))
    ELSE state = JsNull

\* a handshake_ack at the upper edge of the heartbeat range was parsed, its
\* padded eventId trimmed
C25_Witness ==
  /\ fn = "parseAndValidateWsEnvelope"
  /\ state # JsNull
  /\ state.type = JsString("handshake_ack")
  /\ Read(state0, "eventId") = JsString(" evt-1 ")
  /\ state.eventId = JsString("evt-1")
  /\ state.heartbeatMs = JsNumber(120000)

(***************************************************************************)
(* handleWebSocketMessage on the frames a socket can deliver.              *)
(***************************************************************************)
\* a frame JSON.parse throws on
NotJson == [t |-> "unparseable"]

\* the string a property holds, UNDEFINED when it holds none
Text(v) == IF v.t = "string" THEN v.s ELSE UNDEFINED

\* readBridgeString(value) of a decoded JSON value
readBridgeText(v) == IF v.t = "string" THEN Trim(v.s) ELSE ""

parseWsEnvelope(body) ==
  IF body.t # "object" THEN JsNull
  ELSE IF \E n \in {"type", "eventId", "clientId", "occurredAt", "schemaVersion"} :
            readBridgeText(Prop(body, n)) = ""
  THEN JsNull
  ELSE IF /\ readBridgeText(Prop(body, "type")) = "action"
          /\ \E n \in {"op", "target", "idempotencyKey"} :
               readBridgeText(Prop(body, n)) = ""
  THEN JsNull
  ELSE IF /\ readBridgeText(Prop(body, "type")) = "ack"
          /\ readBridgeText(Prop(body, "status")) = ""
  THEN JsNull
  ELSE body

\* n is the integer part of the number, as Math.trunc gives it
clampHeartbeatMs(n) == IF n < 1000 THEN 1000 ELSE IF n > 120000 THEN 120000 ELSE n

\* the shared fields of a frame of the bridge
FrameBase(type, eventId) ==
  [type |-> JsString(type), eventId |-> JsString(eventId),
   clientId |-> JsString("c1"), occurredAt |-> JsString(toISOString(0)),
   schemaVersion |-> JsString("1.0")]

Frame(type, eventId, own) == JsObject(WithProps(FrameBase(type, eventId), own))

AckFrame == 
  Frame("ack", "a1", [correlationId |-> JsString("e1"), status |-> JsString("applied")])

ActionFrame ==
  Frame("action", "in-created",
        [idempotencyKey |-> JsString("k-created"), op |-> JsString("bookmark_created"),
         target |-> JsString("P|1"),
         payload |-> JsObject([parentId |-> JsString("201"), title |-> JsString("T"),
                               url |-> JsString("https://t")])])

\* the bridge reports that it has the event, no outcome yet
ReceivedAckFrame ==
  Frame("ack", "a3", [correlationId |-> JsString("e1"), status |-> JsString("received")])

\* the bridge applied the event under another key than the gateway holds
ResolvedAckFrame ==
  Frame("ack", "a4", [correlationId |-> JsString("e1"), status |-> JsString("applied"),
                      resolvedKey |-> JsString("P|1")])

\* a second action of the bridge, on the seeded bookmark
RenameActionFrame ==
  Frame("action", "in-updated",
        [idempotencyKey |-> JsString("k-updated"), op |-> JsString("bookmark_updated"),
         target |-> JsString("P|0"),
         payload |-> JsObject([bookmarkId |-> JsString("b1"), title |-> JsString("T2")])])

\* frames that pass the typed schema
ValidFrames ==
  {AckFrame, ReceivedAckFrame, ResolvedAckFrame, ActionFrame, RenameActionFrame,
   Frame("handshake_ack", "h1",
         [sessionId |-> JsString("ses-1"), accepted |-> JsBoolean(TRUE),
          heartbeatMs |-> JsNumber(60000)]),
   Frame("heartbeat_ping", "p1", <<>>),
   Frame("error", "x1", [code |-> JsString("E1"), message |-> JsString("failed"),
                          retryable |-> JsBoolean(FALSE)])}

\* frames that are no JSON, no record, or fail the typed schema of their type
InvalidFrames ==
  {NotJson, JsNumber(5),
   JsObject([n \in DOMAIN FrameBase("ack", "a0") \ {"clientId"} |->
               FrameBase("ack", "a0")[n]]),
   Frame("future_type", "u1", <<>>),
   Frame("ack", "a2", [correlationId |-> JsString("e1"),
                       status |-> JsString("future_status")]),
   Frame("ack", "e1", [status |-> JsString("applied")]),
   Frame("action", "in-nopayload",
         [idempotencyKey |-> JsString("k-nopayload"),
          op |-> JsString("bookmark_created"), target |-> JsString("P|1")]),
   Frame("handshake_ack", "h2",
         [sessionId |-> JsString("ses-1"), accepted |-> JsBoolean(TRUE),
          heartbeatMs |-> JsNumber(999)]),
   Frame("heartbeat_pong", "p2", <<>>)}

\* the envelope as the handlers of the worker read it
EnvelopeOf(body) ==
  LET payload == ObjectOrEmpty(Prop(body, "payload"))
  IN [type |-> Text(Prop(body, "type")), eventId |-> Text(Prop(body, "eventId")),
      clientId |-> Text(Prop(body, "clientId")),
      idempotencyKey |-> Text(Prop(body, "idempotencyKey")),
      correlationId |-> Text(Prop(body, "correlationId")),
      status |-> Text(Prop(body, "status")),
      legacyStatus |-> Text(Prop(body, "legacyStatus")),
      reason |-> Text(Prop(body, "reason")),
      resolvedKey |-> Text(Prop(body, "resolvedKey")),
      op |-> Text(Prop(body, "op")), target |-> Text(Prop(body, "target")),
      payload |-> ActionPayload(Text(Prop(payload, "bookmarkId")),
                                Text(Prop(payload, "parentId")),
                                Text(Prop(payload, "title")),
                                Text(Prop(payload, "url")))]

\* handleWebSocketMessage(rawMessage) up to its first await: what it logs,
\* what it sends and the invocation that goes on (Idle when it returned)
handleWebSocketMessage(frame) ==
  LET body == IF frame = NotJson THEN JsNull ELSE parseWsEnvelope(frame)
      envelope == EnvelopeOf(body)
      returned == [logs |-> {}, sent |-> <<>>, task |-> Idle]
      heartbeatMs == Prop(body, "heartbeatMs")
  IN IF frame = NotJson
     THEN [returned EXCEPT !.logs =
             {WorkerLog("ws_invalid_message", "json_parse_failed", UNDEFINED,
                        UNDEFINED, UNDEFINED)}]
     ELSE IF body = JsNull
     THEN [returned EXCEPT !.logs =
             {WorkerLog("ws_invalid_message", "schema_rejected", UNDEFINED,
                        UNDEFINED, UNDEFINED)}]
     ELSE IF envelope.type = "handshake_ack"
     THEN [logs |-> {WorkerLog("ws_handshake_ack", UNDEFINED, UNDEFINED, UNDEFINED,
                               UNDEFINED)},
           sent |-> <<>>,
           task |-> IF heartbeatMs.t = "number"
                    THEN [kind |-> "patch", pc |-> "patch_get", got |-> wsSession,
                          after |-> "return", frame |-> frame,
                          patch |-> [heartbeatMs |-> clampHeartbeatMs(heartbeatMs.n)]]
                    ELSE Idle]
     ELSE IF envelope.type = "heartbeat_ping"
     THEN [returned EXCEPT !.sent =
             <<[type |-> "heartbeat_pong", clientId |-> envelope.clientId,
                correlationId |-> envelope.eventId]>>]
     ELSE IF envelope.type = "heartbeat_pong" THEN returned
     ELSE IF envelope.type = "ack"
     THEN [returned EXCEPT !.task =
             [kind |-> "ack", pc |-> "loaded", env |-> envelope, frame |-> frame,
              st |-> migrateState(storage, now)]]
     ELSE IF envelope.type = "error"
     THEN [returned EXCEPT !.logs =
             {WorkerLog("ws_error", FirstTruthy(envelope.reason, "", "unknown"),
                        UNDEFINED, UNDEFINED, UNDEFINED)}]
     ELSE IF envelope.type = "action"
     THEN [returned EXCEPT !.task =
             [kind |-> "message", pc |-> "loaded", env |-> envelope, frame |-> frame,
              st |-> migrateState(storage, now), cur |-> envelope,
              ack |-> ApplyAck("", UNDEFINED, UNDEFINED), plan |-> <<>>,
              next |-> <<>>, rootId |-> "", ordered |-> <<>>,
              rootOrder |-> <<>>, failed |-> FALSE]]
     ELSE returned

InitFrames ==
  /\ UnitIdle
  /\ storage = [SeededState([applyEpoch |-> FALSE, epochStartedAt |-> <<>>,
                             cooldownUntil |-> <<>>], FALSE)
                  EXCEPT !.reverseQueue = <<QueueItem("e1", "b1", 0)>>]
  /\ now = 0
  /\ bookmarks = SeededBookmarks
  /\ pendingEvents = <<>>
  /\ tasks = [i \in 1..MaxTasks |-> Idle]
  /\ uuids = 0
  /\ nodeCount = 0
  /\ syslog = {}
  /\ reverseFlushTimer = FALSE
  /\ reverseFlushInFlight = FALSE
  /\ wsReady = "OPEN"
  /\ wsInboundQueue = <<>>
  /\ wsOutboundQueue = <<>>
  /\ wire = <<>>
  /\ applied = <<>>
  /\ echoed = {}
  /\ ticks = 0
  /\ edits = 0
  /\ delivered = <<>>
  /\ wsSession = [DEFAULT_WS_SESSION EXCEPT !.status = "connected"]
  /\ bridgeConfig \in {c \in BridgeConfigs : \A k \in 1..2 : c.profiles[k].enabled}
  /\ sockets = <<[readyState |-> "OPEN",
                  profile |-> EnsuredProfile(bridgeConfig)]>>
  /\ wsClient = 1
  /\ wsReconnectTimer = FALSE
  /\ storageQueue = <<>>
  /\ connects = 1
  /\ wsHeartbeatTimer = TRUE
  /\ handed = <<>>
  /\ armed = {}

\* wsClient.onmessage: handleWebSocketMessage(event.data) to its first await
ReceiveFrame(frame) ==
  /\ Len(delivered) < MaxDeliveries
  /\ HasFreeSlot
  /\ delivered' = Append(delivered, frame)
  /\ LET handled == handleWebSocketMessage(frame)
     IN /\ syslog' = syslog \cup handled.logs
        /\ sendWsEnvelopes(handled.sent)
        /\ tasks' = IF handled.task = Idle THEN tasks
                    ELSE [tasks EXCEPT ![FreeSlot] = handled.task]
        /\ storageQueue' = IF handled.task # Idle /\ handled.task.kind = "patch"
                           THEN Append(storageQueue, FreeSlot)
                           ELSE storageQueue
  /\ UNCHANGED <<storage, now, bookmarks, pendingEvents, uuids, nodeCount,
                 reverseFlushTimer, reverseFlushInFlight, wsReady, wsInboundQueue,
                 applied, echoed, ticks, edits>>
  /\ UNCHANGED <<wsSession, bridgeConfig, sockets, wsClient, wsReconnectTimer,
                 connects, wsHeartbeatTimer, handed, armed>>
  /\ UNCHANGED unitVars

NextFrames ==
  \/ \E frame \in ValidFrames \cup InvalidFrames : ReceiveFrame(frame)
  \/ \E i \in Slots : AckProcesses(i)
  \/ \E i \in Slots : MessageDedupes(i)
  \/ \E i \in Slots : MessageEnqueues(i)
  \/ \E i \in Slots : MessageDrains(i)
  \/ \E i \in Slots : PatchSaves(i)
  \/ \E i \in Slots : PatchReturns(i)

SpecFrames == InitFrames /\ [][NextFrames]_vars

\* the frame is a record that passes the typed schema of its type
TypedSchema(frame) ==
  /\ frame # NotJson
  /\ SharedSchema(frame)
  /\ OwnSchema(frame)
  /\ OptionalSchema(frame)

\* the frame the socket delivered last
LastFrame == delivered[Len(delivered)]

\* the managed state, the session and the bookmark store stay as they are
NothingPersistedChanges ==
  /\ storage'.reverseQueue = storage.reverseQueue
  /\ storage'.wsDedupe = storage.wsDedupe
  /\ storage'.bookmarkIdToManagedKey = storage.bookmarkIdToManagedKey
  /\ wsSession' = wsSession
  /\ bookmarks' = bookmarks

\* C26: every received frame that is not valid JSON or fails the typed
\* schema of its type is dropped with ws_invalid_message: the handler logs
\* it and returns, and no step taken for such a frame changes the reverse
\* queue, the dedupe ledger, the key map, the session or the bookmark store.
C26_InvalidFramesDropped ==
  [][/\ (Len(delivered') > Len(delivered) /\ ~TypedSchema(LastFrame')) =>
          /\ \E log \in syslog' : log.event = "ws_invalid_message"
          /\ tasks' = tasks
          /\ wire' = wire
          /\ NothingPersistedChanges
     /\ \A i \in Slots :
          (tasks[i] # Idle /\ tasks'[i] # tasks[i] /\ ~TypedSchema(tasks[i].frame))
            => NothingPersistedChanges]_vars

(***************************************************************************)
(* applyInboundActionEvent called on one action envelope.                  *)
(***************************************************************************)
ActionOps ==
  {"bookmark_created", "bookmark_updated", "bookmark_deleted", "folder_renamed",
   "bookmark_moved"}

\* the envelopes the call is made on: every op and one the function does not
\* know, each field given, empty or left out, ids the store has and has not
DrawnActions ==
  {InboundAction("in-1", "k-1", op, target,
                 ActionPayload(bookmarkId, parentId, ttl, UNDEFINED)) :
     op \in ActionOps \cup {"bookmark_archived"},
     target \in {"", "P|0", "b1"},
     bookmarkId \in {UNDEFINED, "", "b1", "201", "gone"},
     parentId \in {UNDEFINED, "201", "900", "gone"},
     ttl \in {UNDEFINED, "T2"}}

InitApply ==
  /\ UnitIdle
  /\ WorkerStart({SeededState([applyEpoch |-> FALSE, epochStartedAt |-> <<>>,
                               cooldownUntil |-> <<>>], FALSE)},
                 SeededBookmarks, "OPEN")

\* await applyInboundActionEvent(envelope), the store call it makes included
CallApplyInboundActionEvent ==
  /\ delivered = <<>>
  /\ \E envelope \in DrawnActions :
       LET result == applyInboundActionEvent(bookmarks, envelope,
                                             NewNodeId(nodeCount + 1))
       IN /\ delivered' = <<envelope>>
          /\ tasks' = [tasks EXCEPT ![1] =
                         [kind |-> "apply", pc |-> "returned", env |-> envelope,
                          ack |-> result.ack]]
          /\ bookmarks' = result.bookmarks
          /\ pendingEvents' =
               IF result.mutated
               THEN Append(pendingEvents, Fired(result.event, "inbound"))
               ELSE pendingEvents
          /\ nodeCount' = IF result.mutated /\ envelope.op = "bookmark_created"
                          THEN nodeCount + 1 ELSE nodeCount
  /\ UNCHANGED <<storage, now, uuids, syslog, reverseFlushTimer, reverseFlushInFlight,
                 wsReady, wsInboundQueue, wsOutboundQueue, wire, applied, echoed,
                 ticks, edits>>
  /\ WorkerFrame

NextApply == CallApplyInboundActionEvent

SpecApply == InitApply /\ [][NextApply]_vars

\* the missing_* reason of each op
MissingReason ==
  [bookmark_created |-> "missing_parent_id", bookmark_updated |-> "missing_bookmark_id",
   bookmark_deleted |-> "missing_bookmark_id", folder_renamed |-> "missing_folder_id",
   bookmark_moved |-> "missing_move_fields"]

\* a field op requires is absent, bookmarkId and parentId being the ids read
RequiredAbsent(op, bookmarkId, parentId) ==
  CASE op = "bookmark_created" -> ~Truthy(parentId)
    [] op \in {"bookmark_updated", "bookmark_deleted", "folder_renamed"} ->
         ~Truthy(bookmarkId)
    [] op = "bookmark_moved" -> ~Truthy(bookmarkId) \/ ~Truthy(parentId)
    [] OTHER -> FALSE

\* the store is as it was and has fired nothing
NoStoreCall == bookmarks' = bookmarks /\ pendingEvents' = pendingEvents

\* the call returned the one result the claim gives for its envelope, the
\* bookmarkId being read from the payload alone or else from the target
ApplyContract(orTarget) ==
  delivered' # delivered =>
    LET envelope == delivered'[1]
        ack == tasks'[1].ack
        bookmarkId == IF orTarget
                      THEN FirstTruthy(envelope.payload.bookmarkId, envelope.target, "")
                      ELSE readBridgeString(envelope.payload.bookmarkId)
        parentId == readBridgeString(envelope.payload.parentId)
    IN /\ tasks'[1].pc = "returned"
       /\ envelope.op \notin ActionOps =>
            /\ ack.status = "rejected_invalid"
            /\ ack.reason = "unsupported_action"
            /\ NoStoreCall
       /\ (envelope.op \in ActionOps /\ RequiredAbsent(envelope.op, bookmarkId, parentId)) =>
            /\ ack.status = "rejected_invalid"
            /\ ack.reason = MissingReason[envelope.op]
            /\ NoStoreCall
       /\ (envelope.op \in ActionOps /\ ~RequiredAbsent(envelope.op, bookmarkId, parentId)) =>
            \/ /\ ack.status = "applied"
               /\ Len(pendingEvents') = Len(pendingEvents) + 1
            \/ /\ ack.status = "skipped_ambiguous"
               /\ ack.reason = "store_error"
               /\ NoStoreCall

\* C27: applyInboundActionEvent returns exactly one result per envelope:
\* applied when the store call succeeds; rejected_invalid with a missing_*
\* reason and no store call when a required field is absent (parentId for
\* bookmark_created, bookmarkId for update/delete/rename, both for move);
\* skipped_ambiguous with the error message when the store call throws;
\* rejected_invalid with unsupported_action for any other op.  As stated,
\* bookmarkId being the field of the payload.
C27_OneResultPerEnvelope == [][ApplyContract(FALSE)]_vars

\* C27 (amended): the same, bookmarkId being payload.bookmarkId or, when
\* that is empty, the envelope's target.
C27_OneResultPerEnvelopeIdOrTarget == [][ApplyContract(TRUE)]_vars

\* an update whose payload names no bookmarkId was applied to the bookmark
\* its target names
C27_Witness ==
  /\ delivered # <<>>
  /\ delivered[1].op = "bookmark_updated"
  /\ delivered[1].payload.bookmarkId = UNDEFINED
  /\ delivered[1].target = "b1"
  /\ delivered[1].payload.title = "T2"
  /\ tasks[1].ack.status = "applied"
  /\ bookmarks.title["b1"] = "T2"

(***************************************************************************)
(* The ack status mappings called on drawn statuses.                       *)
(***************************************************************************)
\* mapLegacyAckStatus(status) of the websocket-envelope module
envelopeMapLegacyAckStatus(status) ==
  IF status = "applied" THEN "applied"
  ELSE IF status = "duplicate" THEN "duplicate"
  ELSE IF status = "skipped_ambiguous" \/ status = "skipped_unmanaged" THEN "skipped"
  ELSE "rejected"

\* every status of either vocabulary, and values of neither: blank, unknown,
\* differently cased, not given
DrawnStatuses ==
  WS_ACK_STATUSES \cup LEGACY_ACK_STATUSES
    \cup {"", "future_status", "Applied", " applied", UNDEFINED}

InitAckStatus ==
  /\ state0 \in [wsStatus : DrawnStatuses, legacyStatus : DrawnStatuses]
  /\ state = <<>>
  /\ fn = "none"
  /\ unitPc = "ready"
  /\ coalescedItems = <<>>
  /\ ackResponse = <<>>
  /\ ackTrace = <<>>
  /\ fetchOutcome = "none"
  /\ console = <<>>
  /\ storageWrites = <<>>
  /\ WorkerIdle

\* mapWsAckToLegacyStatus(wsStatus, legacyStatus), the same without a
\* legacyStatus mapped back, and both mapLegacyAckStatus on legacyStatus
CallMapAckStatus ==
  /\ fn = "none"
  /\ state' =
       [legacy |-> mapWsAckToLegacyStatus(state0.wsStatus, state0.legacyStatus),
        back |-> mapLegacyAckStatus(mapWsAckToLegacyStatus(state0.wsStatus, UNDEFINED)),
        ws |-> mapLegacyAckStatus(state0.legacyStatus),
        envelopeWs |-> envelopeMapLegacyAckStatus(state0.legacyStatus)]
  /\ fn' = "mapAckStatus"
  /\ unitPc' = "returned"
  /\ UNCHANGED <<state0, coalescedItems, ackResponse, ackTrace, fetchOutcome,
                 console, storageWrites>>
  /\ UnitFrame

NextAckStatus == CallMapAckStatus

SpecAckStatus == InitAckStatus /\ [][NextAckStatus]_vars

\* C28: mapLegacyAckStatus maps applied to applied, duplicate to duplicate,
\* skipped_ambiguous and skipped_unmanaged to skipped and every other value
\* to rejected; mapWsAckToLegacyStatus returns legacyStatus when one is
\* given and otherwise maps applied to applied, duplicate to duplicate,
\* skipped to skipped_ambiguous and every other value to rejected_invalid;
\* mapping a websocket status w of {applied, duplicate, skipped, rejected}
\* to legacy and back gives w; the two copies of mapLegacyAckStatus agree.
C28_AckStatusMapping ==
  fn = "mapAckStatus" =>
    LET w == state0.wsStatus
        l == state0.legacyStatus
    IN /\ l = "applied" => state.ws = "applied"
       /\ l = "duplicate" => state.ws = "duplicate"
       /\ l \in {"skipped_ambiguous", "skipped_unmanaged"} => state.ws = "skipped"
       /\ l \notin {"applied", "duplicate", "skipped_ambiguous", "skipped_unmanaged"}
            => state.ws = "rejected"
       /\ l \notin {"", UNDEFINED} => state.legacy = l
       /\ l \in {"", UNDEFINED} =>
            /\ w = "applied" => state.legacy = "applied"
            /\ w = "duplicate" => state.legacy = "duplicate"
            /\ w = "skipped" => state.legacy = "skipped_ambiguous"
            /\ w \notin {"applied", "duplicate", "skipped"}
                 => state.legacy = "rejected_invalid"
       /\ w \in {"applied", "duplicate", "skipped", "rejected"} => state.back = w
       /\ state.envelopeWs = state.ws

\* skipped with no legacyStatus became skipped_ambiguous and came back as
\* skipped
C28_Witness ==
  /\ fn = "mapAckStatus"
  /\ state0.wsStatus = "skipped"
  /\ state0.legacyStatus = UNDEFINED
  /\ state.legacy = "skipped_ambiguous"
  /\ state.back = "skipped"

(***************************************************************************)
(* What the session manager hands to rsLog.                                *)
(***************************************************************************)
\* the profiles of the stored bridge config and the default profile
KnownProfiles ==
  {bridgeConfig.profiles[k] : k \in DOMAIN bridgeConfig.profiles}
    \cup {DEFAULT_BRIDGE_PROFILE}

ProfileTokens == {p.token : p \in KnownProfiles}

ProfileUrls == {p.url : p \in KnownProfiles} \cup {p.wsUrl : p \in KnownProfiles}

\* some field of a record handed to rsLog holds one of values
Logged(values) == \E log \in syslog : \E n \in DOMAIN log : log[n] \in values

\* C29: token values and full URLs are never logged: no record passed to
\* rsLog holds a profile token or a full bridge url / wsUrl, in any
\* reachable state.
C29_NoTokenOrUrlLogged == ~Logged(ProfileTokens \cup ProfileUrls)

(***************************************************************************)
(* Load-modify-save of the managed state by concurrent handlers.           *)
(***************************************************************************)
\* the eventIds of the persisted reverse queue
PersistedIds(record) ==
  {record.reverseQueue[k].event.eventId : k \in DOMAIN record.reverseQueue}

\* the eventId the ack handler i answers
AckedId(i) ==
  IF Truthy(readBridgeString(tasks[i].env.correlationId))
  THEN tasks[i].env.correlationId ELSE tasks[i].env.eventId

\* C30: the persisted managed state after concurrent load-modify-save
\* operations equals the result of running them in some serial order, for
\* every interleaving at their awaits: an event appended by a capture
\* handler stays in the persisted reverse queue until an ack removes it (no
\* other step takes an eventId out of the persisted queue), and an item
\* removed by an ack never reappears (the only eventId a step puts into the
\* persisted queue is the one the capture handler has just drawn).
C30_NoLostOrRevivedEvent ==
  [][/\ \A id \in PersistedIds(storage) \ PersistedIds(storage') :
          \E i \in Slots : /\ tasks[i].kind = "ack"
                           /\ tasks'[i] = Idle
                           /\ AckedId(i) = id
     /\ \A id \in PersistedIds(storage') \ PersistedIds(storage) :
          /\ uuids' = uuids + 1
          /\ id = NewEventId(uuids')]_vars

(***************************************************************************)
(* Acks that report no terminal outcome.                                   *)
(***************************************************************************)
WsTerminalStatuses == {"applied", "duplicate", "skipped", "rejected"}

\* the ack handler i holds an ack with no terminal status and no legacyStatus
NoTerminalOutcome(i) ==
  /\ tasks[i].kind = "ack"
  /\ tasks[i].env.status \notin WsTerminalStatuses
  /\ ~IsNonEmptyString(tasks[i].env.legacyStatus)

\* C31: an ack envelope received over the WebSocket that reports no
\* terminal outcome (status received, or a status outside applied /
\* duplicate / skipped / rejected, with no legacyStatus) leaves the queue
\* item whose eventId equals its correlationId in the reverse queue.
C31_NonTerminalAckRetainsItem ==
  [][\A i \in Slots :
       (NoTerminalOutcome(i) /\ tasks'[i] = Idle
          /\ tasks[i].env.correlationId \in PersistedIds(storage))
         => tasks[i].env.correlationId \in PersistedIds(storage')]_vars

(***************************************************************************)
(* The persisted session status against the sockets.                       *)
(***************************************************************************)
\* the close handler of some socket is still running
CloseInProgress == \E i \in Slots : tasks[i].kind = "close"

\* C32: the persisted session status is connected only while the gateway's
\* socket is OPEN: once the close handler of a socket has finished, the
\* persisted status is disconnected until a later ensure changes it (no
\* ensure writes connected), so with no close handler running a persisted
\* status connected means that a socket is OPEN.
C32_ConnectedOnlyWhileOpen ==
  (wsSession.status = "connected" /\ ~CloseInProgress)
    => \E s \in DOMAIN sockets : sockets[s].readyState = "OPEN"

(***************************************************************************)
(* The two key maps of the persisted managed state.                        *)
(***************************************************************************)
\* C33: in every reachable persisted state outside an apply cycle, for
\* every entry managedBookmarkIds[k] = id it holds that
\* bookmarkIdToManagedKey[id] = k.
C33_KeyMapsAgree ==
  ~storage.suppressionState.applyEpoch =>
    \A k \in DOMAIN storage.managedBookmarkIds :
      LET id == storage.managedBookmarkIds[k]
      IN /\ id \in DOMAIN storage.bookmarkIdToManagedKey
         /\ storage.bookmarkIdToManagedKey[id] = k

(***************************************************************************)
(* The drain of the inbound queue by concurrent message handlers.          *)
(***************************************************************************)
\* the message handler i is inside flushWsInboundQueue, suspended in the
\* application of the envelope it shifted: at the store call
\* applyInboundActionEvent made, or in syncFromPayload
Applying(i) ==
  /\ tasks[i].kind = "message"
  /\ \/ tasks[i].pc = "applied" /\ tasks[i].ack.status # "rejected_invalid"
     \/ tasks[i].pc \in {"sync_loaded", "sync_root", "sync_run", "sync_saved",
                         "sync_reset"}

\* C34: inbound actions accepted by the dedupe check are applied to the
\* bookmark store one at a time: the application of one inbound action
\* never overlaps the application of another, for every interleaving of
\* message handlers.
C34_OneApplyAtATime == Cardinality({i \in Slots : Applying(i)}) <= 1

(***************************************************************************)
(* The first frame on a socket that has just opened.                       *)
(***************************************************************************)
\* the socket has opened and handleWebSocketOpen has not sent its handshake
HandshakePending ==
  \E i \in Slots : tasks[i].kind = "open" /\ tasks[i].pc = "patching"

\* C35: on every new socket the handshake is the first frame sent: no
\* action, ack, heartbeat_ping or heartbeat_pong frame is sent on that
\* socket before its handshake, for every interleaving of the open handler
\* with reverse flushes and inbound messages.
C35_HandshakeFirst ==
  [][(HandshakePending /\ wire' # wire)
       => wire'[Len(wire) + 1].type = "handshake"]_vars

(***************************************************************************)
(* The heartbeat interval of the session manager.                          *)
(***************************************************************************)
\* C38: the heartbeat interval is cleared on close: while it is armed some
\* socket is OPEN, so that after a close handler has run no interval remains
\* armed until the next open.
C38_HeartbeatClearedOnClose ==
  wsHeartbeatTimer => \E s \in DOMAIN sockets : sockets[s].readyState = "OPEN"

(***************************************************************************)
(* The reconnect timer of the session manager.                             *)
(***************************************************************************)
\* wsClient is a socket that is connecting or open
ClientConnected ==
  wsClient # 0 /\ sockets[wsClient].readyState \in {"CONNECTING", "OPEN"}

\* C37: the reconnect timer is never left armed while a socket is CONNECTING
\* or OPEN after a successful ensure: once ensureWebSocketConnection has
\* made wsClient a connecting or open socket and no close handler has run
\* since, wsReconnectTimer is null.
C37_TimerNotArmedWhileConnected == ClientConnected => ~wsReconnectTimer

(***************************************************************************)
(* The outbound queue: sendWsEnvelope and the drain loop of                *)
(* flushWsOutboundQueue, one iteration a step.  wsClient.send() may throw. *)
(* The session record the handlers patch is left out, as in the worker     *)
(* model.                                                                  *)
(***************************************************************************)
\* most envelopes the handlers hand to sendWsEnvelope in a run
MaxHanded == 3
\* most sockets constructed in a run
MaxOpens == 2

\* sendWsEnvelope(envelope) on the outbound queue queue with sent on the
\* socket so far; throws: wsClient.send() raises
sendWsEnvelope(queue, sent, envelope, throws) ==
  IF wsReady = "OPEN" /\ ~throws
  THEN [queue |-> queue, wire |-> Append(sent, envelope)]
  ELSE [queue |-> Append(queue, envelope), wire |-> sent]

\* the while loop of flushWsOutboundQueue is running
Draining == \E i \in Slots : tasks[i].kind = "open" /\ tasks[i].pc = "draining"

\* what the steps of the outbound queue leave alone
ChannelFrame ==
  /\ UNCHANGED unitVars
  /\ UNCHANGED <<storage, now, bookmarks, pendingEvents, uuids, nodeCount,
                 reverseFlushTimer, reverseFlushInFlight, wsInboundQueue, applied,
                 echoed, ticks, edits, delivered>>
  /\ UNCHANGED <<wsSession, bridgeConfig, sockets, wsClient, storageQueue, armed>>

InitDrain ==
  /\ UnitIdle
  /\ WorkerStart({<<>>}, [children |-> <<>>, title |-> <<>>], "NONE")

\* ensureWebSocketConnection constructs a socket
ChannelConnects ==
  /\ wsReady = "NONE"
  /\ connects < MaxOpens
  /\ wsReady' = "CONNECTING"
  /\ wsReconnectTimer' = FALSE
  /\ connects' = connects + 1
  /\ UNCHANGED <<tasks, syslog, wsOutboundQueue, wire, wsHeartbeatTimer, handed>>
  /\ ChannelFrame

\* a handler (the ack of a message handler, the action of a reverse flush)
\* calls sendWsEnvelope(envelope)
HandOver(throws) ==
  /\ ~Draining
  /\ Len(handed) < MaxHanded
  /\ LET envelope == [type |-> "action", eventId |-> EventIdSeq[Len(handed) + 1]]
         result == sendWsEnvelope(wsOutboundQueue, wire, envelope, throws)
     IN /\ wsOutboundQueue' = result.queue
        /\ wire' = result.wire
        /\ handed' = Append(handed, [envelope |-> envelope,
                                      queued |-> result.wire = wire])
  /\ UNCHANGED <<tasks, syslog, wsReady, wsReconnectTimer, connects,
                 wsHeartbeatTimer>>
  /\ ChannelFrame

\* handleWebSocketOpen after its patch: the handshake, the heartbeat
\* interval, and flushWsOutboundQueue up to its loop
DrainOpenHandshakes(i, throws) ==
  /\ ~Draining
  /\ tasks[i].kind = "open"
  /\ tasks[i].pc = "patching"
  /\ LET result == sendWsEnvelope(wsOutboundQueue, wire,
                     [type |-> "handshake", clientId |-> ActiveClientId], throws)
     IN /\ wsOutboundQueue' = result.queue
        /\ wire' = result.wire
  /\ wsHeartbeatTimer' = TRUE
  /\ tasks' = [tasks EXCEPT ![i] =
       [@ EXCEPT !.pc = IF wsReady = "OPEN" THEN "draining" ELSE "flushed"]]
  /\ UNCHANGED <<syslog, wsReady, wsReconnectTimer, connects, handed>>
  /\ ChannelFrame

\* one iteration of `while (wsOutboundQueue.length > 0)`: shift, an empty
\* head breaks, sendWsEnvelope(next); after the loop the patch
DrainStep(i, throws) ==
  /\ tasks[i].kind = "open"
  /\ tasks[i].pc = "draining"
  /\ IF wsOutboundQueue = <<>>
     THEN /\ tasks' = [tasks EXCEPT ![i] = [@ EXCEPT !.pc = "flushed"]]
          /\ UNCHANGED <<wsOutboundQueue, wire>>
     ELSE LET result == sendWsEnvelope(Tail(wsOutboundQueue), wire,
                                       Head(wsOutboundQueue), throws)
          IN /\ wsOutboundQueue' = result.queue
             /\ wire' = result.wire
             /\ UNCHANGED tasks
  /\ UNCHANGED <<syslog, wsReady, wsReconnectTimer, connects, wsHeartbeatTimer,
                 handed>>
  /\ ChannelFrame

\* rsLog("ws_connected"), once no drain loop is running
DrainOpenReturns(i) == ~Draining /\ OpenReturns(i)

\* the socket closes: handleWebSocketClose clears the heartbeat interval and
\* wsClient, markWebSocketDisconnected arms the reconnect timer
ChannelCloses ==
  /\ ~Draining
  /\ wsReady \in {"CONNECTING", "OPEN"}
  /\ wsReady' = "NONE"
  /\ wsHeartbeatTimer' = FALSE
  /\ wsReconnectTimer' = TRUE
  /\ UNCHANGED <<tasks, syslog, wsOutboundQueue, wire, connects, handed>>
  /\ ChannelFrame

NextDrain ==
  \/ ChannelConnects
  \/ SocketOpens
  \/ \E throws \in BOOLEAN : HandOver(throws)
  \/ \E i \in Slots, throws \in BOOLEAN : DrainOpenHandshakes(i, throws)
  \/ \E i \in Slots, throws \in BOOLEAN : DrainStep(i, throws)
  \/ \E i \in Slots : DrainOpenReturns(i)
  \/ ChannelCloses

SpecDrain == InitDrain /\ [][NextDrain]_vars

\* where envelope stands among what was sent on the socket
WirePosition(envelope) == CHOOSE k \in 1..Len(wire) : wire[k] = envelope

OnWire(envelope) == \E k \in 1..Len(wire) : wire[k] = envelope

\* C36: queued envelopes are sent in the order they were handed over: of two
\* envelopes that sendWsEnvelope put on the outbound queue and that have both
\* been sent, the one handed over first was sent first.
C36_QueuedSentInOrder ==
  \A m, n \in DOMAIN handed :
    (/\ m < n
     /\ handed[m].queued /\ handed[n].queued
     /\ OnWire(handed[m].envelope) /\ OnWire(handed[n].envelope))
      => WirePosition(handed[m].envelope) < WirePosition(handed[n].envelope)

\* the drain loop is synchronous: once entered, its next iteration runs
SpecDrainFair ==
  SpecDrain /\ WF_vars(\E i \in Slots, throws \in BOOLEAN : DrainStep(i, throws))

\* C39: flushWsOutboundQueue terminates: a drain loop that is running ends,
\* for every outbound queue, also when a send throws during the drain.
C39_DrainTerminates == Draining ~> ~Draining

(***************************************************************************)
(* The persisted session record and the back-off of the reconnect timer:   *)
(* sanitizeWebSocketSession on whatever the storage holds, and the patches *)
(* of markWebSocketDisconnected, handleWebSocketOpen and the handshake_ack *)
(* branch, each called on its own.  wsSession is the raw stored value, a   *)
(* tagged JS value; of the record the status, reconnectAttempt and         *)
(* heartbeatMs are kept.                                                   *)
(***************************************************************************)
\* the largest reconnectAttempt the storage holds at the start
MaxAttempt == 6
\* most patches of the session record in a run
MaxPatches == 2

Min(a, b) == IF a <= b THEN a ELSE b

\* Number.isFinite(v)
NumberIsFinite(v) == v.t = "number"

\* Math.trunc(v) of a finite number: a fraction carries its integer part
MathTrunc(v) == v.n

readWsStatus(value) ==
  IF value \in {JsString("connecting"), JsString("connected"), JsString("reconnecting")}
  THEN value
  ELSE JsString("disconnected")

sanitizeWebSocketSession(raw) ==
  LET base == ObjectOrEmpty(raw)
      attempt == Prop(base, "reconnectAttempt")
      heartbeat == Prop(base, "heartbeatMs")
  IN JsObject(
       [status |-> readWsStatus(Prop(base, "status")),
        reconnectAttempt |->
          IF NumberIsFinite(attempt) THEN JsNumber(Max(0, MathTrunc(attempt)))
          ELSE JsNumber(0),
        heartbeatMs |->
          IF NumberIsFinite(heartbeat)
          THEN JsNumber(clampHeartbeatMs(MathTrunc(heartbeat)))
          ELSE JsNumber(30000)])

\* patchWebSocketSession(patch) on the stored value raw: the record it sets
patchWebSocketSession(raw, patch) ==
  sanitizeWebSocketSession(
    JsObject(WithProps(sanitizeWebSocketSession(raw).props, patch)))

\* const delayMs of markWebSocketDisconnected
delayMs_Uncapped(nextAttempt) == 500 * (2 ^ Min(nextAttempt, 6))

delayMs(nextAttempt) == Min(30000, 500 * (2 ^ Min(nextAttempt, 6)))

\* what the storage can hold under reconnectAttempt and heartbeatMs
RawAttempts ==
  {JsUndefined, JsString("3"), NaN, JsNumber(-2), JsFraction(2)}
    \cup {JsNumber(n) : n \in 0..MaxAttempt}

RawHeartbeats ==
  {JsUndefined, JsString("5000"), NaN, JsNumber(-1), JsNumber(999), JsNumber(1000),
   JsNumber(30000), JsNumber(120000), JsNumber(120001), JsFraction(999),
   JsFraction(120000)}

RawSessions ==
  {JsUndefined, JsArray(<<>>)}
    \cup {JsObject([status |-> JsString("connected"), reconnectAttempt |-> a,
                    heartbeatMs |-> h]) : a \in RawAttempts, h \in RawHeartbeats}

\* envelope.heartbeatMs of a handshake_ack that parseWsEnvelope let through
AckHeartbeats ==
  {JsUndefined, JsNumber(1000), JsNumber(60000), JsNumber(120000)}

InitBackoff ==
  /\ UnitIdle
  /\ storage = <<>>
  /\ now = 0
  /\ bookmarks = [children |-> <<>>, title |-> <<>>]
  /\ pendingEvents = <<>>
  /\ tasks = [i \in 1..MaxTasks |-> Idle]
  /\ uuids = 0
  /\ nodeCount = 0
  /\ syslog = {}
  /\ reverseFlushTimer = FALSE
  /\ reverseFlushInFlight = FALSE
  /\ wsReady = "NONE"
  /\ wsInboundQueue = <<>>
  /\ wsOutboundQueue = <<>>
  /\ wire = <<>>
  /\ applied = <<>>
  /\ echoed = {}
  /\ ticks = 0
  /\ edits = 0
  /\ delivered = <<>>
  /\ wsSession \in RawSessions
  /\ bridgeConfig = <<>>
  /\ sockets = <<>>
  /\ wsClient = 0
  /\ wsReconnectTimer = FALSE
  /\ storageQueue = <<>>
  /\ connects = 0
  /\ wsHeartbeatTimer = FALSE
  /\ handed = <<>>
  /\ armed = {}

\* what the calls on the session record leave alone
BackoffFrame ==
  /\ UNCHANGED <<state, state0, fn, unitPc, coalescedItems, ackResponse, ackTrace,
                 fetchOutcome, console>>
  /\ UNCHANGED workerVars
  /\ UNCHANGED <<bridgeConfig, sockets, wsClient, storageQueue, connects,
                 wsHeartbeatTimer, handed>>

\* chrome.storage.local.set({[WS_SESSION_KEY]: next})
StoreSession(next) ==
  /\ Len(storageWrites) < MaxPatches
  /\ wsSession' = next
  /\ storageWrites' = Append(storageWrites, next)

\* markWebSocketDisconnected(statusReason, detail, true)
CallMarkWebSocketDisconnected ==
  LET current == sanitizeWebSocketSession(wsSession)
      nextAttempt == current.props.reconnectAttempt.n + 1
      next == patchWebSocketSession(wsSession,
                [status |-> JsString("disconnected"),
                 reconnectAttempt |-> JsNumber(nextAttempt)])
  IN /\ StoreSession(next)
     /\ wsReconnectTimer' = TRUE
     /\ armed' = armed \cup {[attempt |-> next.props.reconnectAttempt.n,
                              delayMs |-> delayMs(nextAttempt)]}
     /\ BackoffFrame

\* the patch of handleWebSocketOpen
CallOpenPatch ==
  /\ StoreSession(patchWebSocketSession(wsSession,
       [status |-> JsString("connected"), reconnectAttempt |-> JsNumber(0),
        heartbeatMs |-> JsNumber(30000)]))
  /\ UNCHANGED <<wsReconnectTimer, armed>>
  /\ BackoffFrame

\* the handshake_ack branch of handleWebSocketMessage
CallHandshakeAckPatch(heartbeatMs) ==
  /\ heartbeatMs.t = "number"
  /\ StoreSession(patchWebSocketSession(wsSession,
       [heartbeatMs |-> JsNumber(clampHeartbeatMs(MathTrunc(heartbeatMs)))]))
  /\ UNCHANGED <<wsReconnectTimer, armed>>
  /\ BackoffFrame

\* ensureWebSocketSession
CallEnsureWebSocketSession ==
  /\ StoreSession(sanitizeWebSocketSession(wsSession))
  /\ UNCHANGED <<wsReconnectTimer, armed>>
  /\ BackoffFrame

NextBackoff ==
  \/ CallMarkWebSocketDisconnected
  \/ CallOpenPatch
  \/ \E heartbeatMs \in AckHeartbeats : CallHandshakeAckPatch(heartbeatMs)
  \/ CallEnsureWebSocketSession

SpecBackoff == InitBackoff /\ [][NextBackoff]_vars

\* the delays the claim lists
ListedDelay(attempt) ==
  CASE attempt = 1 -> 1000
    [] attempt = 2 -> 2000
    [] attempt = 3 -> 4000
    [] attempt = 4 -> 8000
    [] attempt = 5 -> 16000
    [] OTHER -> 30000

\* v is a number with no fraction, at least low
IntegerFrom(v, low) ==
  v.t = "number" /\ "fraction" \notin DOMAIN v /\ v.n \in Int /\ v.n >= low

\* C40: the reconnect delay armed by markWebSocketDisconnected is 1000 ms
\* for attempt 1, doubles up to 16000 ms at attempt 5 and is 30000 ms from
\* attempt 6 on, attempt being the reconnectAttempt just written; it never
\* decreases as attempt grows and never exceeds 30000 ms; every session
\* record written has a non-negative integer reconnectAttempt and a
\* heartbeatMs within [1000, 120000].
C40_BackoffAndSanitised ==
  /\ \A r \in armed :
       /\ r.attempt >= 1
       /\ r.delayMs = ListedDelay(r.attempt)
       /\ r.delayMs <= 30000
  /\ \A r, q \in armed : r.attempt <= q.attempt => r.delayMs <= q.delayMs
  /\ \A k \in DOMAIN storageWrites :
       /\ IntegerFrom(storageWrites[k].props.reconnectAttempt, 0)
       /\ IntegerFrom(storageWrites[k].props.heartbeatMs, 1000)
       /\ storageWrites[k].props.heartbeatMs.n <= 120000

\* junk under both fields was read, the timer was armed at attempt 5 with
\* 16000 ms and at attempt 6 with 30000 ms
C40_Witness ==
  /\ [attempt |-> 5, delayMs |-> 16000] \in armed
  /\ [attempt |-> 6, delayMs |-> 30000] \in armed
  /\ Len(storageWrites) = 2
  /\ storageWrites[2].props.heartbeatMs = JsNumber(1000)

=============================================================================
